---- MODULE Spec2Model ----
(***************************************************************************)
(* A model of scripts/chapter_rewriter.py: the chapter detector, the       *)
(* quality assessor, the problem analyzer, the rewrite engine and the      *)
(* iterative quality-gated loop of ChapterRewriter.rewrite_chapter.        *)
(*                                                                         *)
(* A text is a sequence of atoms.  An atom is either one character that is *)
(* not a \w character (a blank, a line feed, a punctuation mark) or a      *)
(* maximal run of \w characters (a word, a number); joining the atoms      *)
(* gives the Python string.  No text of the model holds two adjacent word  *)
(* atoms, so that a word atom is exactly what \w+ matches.  The            *)
(* character-level tests of the source (endswith, lower, regular           *)
(* expressions, substring counts) are tabulated per atom of the lexicon.   *)
(*                                                                         *)
(* Scores are exact decimals: a score s of the source is the integer       *)
(* 8000 * s, so that the mean of the eight dimension scores is an integer  *)
(* too.  The rounding of the source's binary floating point arithmetic is  *)
(* not modelled.                                                           *)
(***************************************************************************)
EXTENDS Integers, Sequences, FiniteSets, TLC

-----------------------------------------------------------------------------
(* The lexicon.                                                            *)

\* The lexicon: the maximal runs of \w characters that occur in the modelled texts.
WordAtoms ==
    {"Ann", "Bob", "He", "The", "Then", "Fear", "Panic", "Rush", "Threat", "Urgent",
     "Meanwhile", "However", "Thus", "Halt", "Wait", "Go", "Hi", "No", "Chapter", "CHAPTER",
     "Part", "PART", "I", "Suddenly", "Quietly", "chapter", "decided", "he", "said", "replied",
     "asked", "whispered", "murmured", "stated", "quickly", "really", "nervously", "quietly",
     "suddenly", "with", "a", "smile", "confidence", "was", "went", "ran", "then", "danger",
     "crisis", "stop", "it", "no", "not", "so", "sure", "of", "m", "however", "fear", "1", "2"}

\* Punctuation characters, one per atom.
PunctAtoms ==
    {".", "?", "!", ",", ":", "\"", "'", "#", "*", "-"}

\* len() of each atom of more than one character.
CharLenTab ==
    ("Ann" :> 3) @@ ("Bob" :> 3) @@ ("He" :> 2) @@ ("The" :> 3) @@ ("Then" :> 4) @@
    ("Fear" :> 4) @@ ("Panic" :> 5) @@ ("Rush" :> 4) @@ ("Threat" :> 6) @@ ("Urgent" :> 6) @@
    ("Meanwhile" :> 9) @@ ("However" :> 7) @@ ("Thus" :> 4) @@ ("Halt" :> 4) @@
    ("Wait" :> 4) @@ ("Go" :> 2) @@ ("Hi" :> 2) @@ ("No" :> 2) @@ ("Chapter" :> 7) @@
    ("CHAPTER" :> 7) @@ ("Part" :> 4) @@ ("PART" :> 4) @@ ("Suddenly" :> 8) @@
    ("Quietly" :> 7) @@ ("chapter" :> 7) @@ ("decided" :> 7) @@ ("he" :> 2) @@ ("said" :> 4) @@
    ("replied" :> 7) @@ ("asked" :> 5) @@ ("whispered" :> 9) @@ ("murmured" :> 8) @@
    ("stated" :> 6) @@ ("quickly" :> 7) @@ ("really" :> 6) @@ ("nervously" :> 9) @@
    ("quietly" :> 7) @@ ("suddenly" :> 8) @@ ("with" :> 4) @@ ("smile" :> 5) @@
    ("confidence" :> 10) @@ ("was" :> 3) @@ ("went" :> 4) @@ ("ran" :> 3) @@ ("then" :> 4) @@
    ("danger" :> 6) @@ ("crisis" :> 6) @@ ("stop" :> 4) @@ ("it" :> 2) @@ ("no" :> 2) @@
    ("not" :> 3) @@ ("so" :> 2) @@ ("sure" :> 4) @@ ("of" :> 2) @@ ("however" :> 7) @@
    ("fear" :> 4)

\* str.lower() of each atom that has an upper-case letter.
LowerTab ==
    ("Ann" :> "ann") @@ ("Bob" :> "bob") @@ ("He" :> "he") @@ ("The" :> "the") @@
    ("Then" :> "then") @@ ("Fear" :> "fear") @@ ("Panic" :> "panic") @@ ("Rush" :> "rush") @@
    ("Threat" :> "threat") @@ ("Urgent" :> "urgent") @@ ("Meanwhile" :> "meanwhile") @@
    ("However" :> "however") @@ ("Thus" :> "thus") @@ ("Halt" :> "halt") @@
    ("Wait" :> "wait") @@ ("Go" :> "go") @@ ("Hi" :> "hi") @@ ("No" :> "no") @@
    ("Chapter" :> "chapter") @@ ("CHAPTER" :> "chapter") @@ ("Part" :> "part") @@
    ("PART" :> "part") @@ ("I" :> "i") @@ ("Suddenly" :> "suddenly") @@ ("Quietly" :> "quietly")

\* Atoms a with a.endswith('ly').
LyAtoms ==
    {"Suddenly", "Quietly", "quickly", "really", "nervously", "quietly", "suddenly"}

\* Atoms matched by [A-Z][a-z]+; in this lexicon the match is always the whole atom.
NameAtoms ==
    {"Ann", "Bob", "He", "The", "Then", "Fear", "Panic", "Rush", "Threat", "Urgent",
     "Meanwhile", "However", "Thus", "Halt", "Wait", "Go", "Hi", "No", "Chapter", "Part",
     "Suddenly", "Quietly"}

\* The names in one fixed order, from which the iteration orders of a set of names are taken.
NameList ==
    <<"Ann", "Bob", "He", "The", "Then", "Fear", "Panic", "Rush", "Threat", "Urgent",
      "Meanwhile", "However", "Thus", "Halt", "Wait", "Go", "Hi", "No", "Chapter", "Part",
      "Suddenly", "Quietly">>

\* Atoms made of letters only: [a-z]+ under re.IGNORECASE.
LetterAtoms ==
    {"Ann", "Bob", "He", "The", "Then", "Fear", "Panic", "Rush", "Threat", "Urgent",
     "Meanwhile", "However", "Thus", "Halt", "Wait", "Go", "Hi", "No", "Chapter", "CHAPTER",
     "Part", "PART", "I", "Suddenly", "Quietly", "chapter", "decided", "he", "said", "replied",
     "asked", "whispered", "murmured", "stated", "quickly", "really", "nervously", "quietly",
     "suddenly", "with", "a", "smile", "confidence", "was", "went", "ran", "then", "danger",
     "crisis", "stop", "it", "no", "not", "so", "sure", "of", "m", "however", "fear"}

\* Atoms matching \d+.
DigitAtoms ==
    {"1", "2"}

\* Atoms with a prefix matching (walked|ran|said|looked|turned).
ActionStart ==
    {"said", "ran"}

\* Atoms in which (said|asked|replied|whispered|shouted) matches under re.IGNORECASE.
AttributionAtoms ==
    {"said", "replied", "asked", "whispered"}

\* LowerCount[<<w, a>>] = a.lower().count(w), for the keywords w of the source and the atoms a where it is not 0.
LowerCount ==
    (<<"then", "Then">> :> 1) @@ (<<"fear", "Fear">> :> 1) @@ (<<"panic", "Panic">> :> 1) @@
    (<<"rush", "Rush">> :> 1) @@ (<<"threat", "Threat">> :> 1) @@
    (<<"urgent", "Urgent">> :> 1) @@ (<<"meanwhile", "Meanwhile">> :> 1) @@
    (<<"however", "However">> :> 1) @@ (<<"thus", "Thus">> :> 1) @@
    (<<"suddenly", "Suddenly">> :> 1) @@ (<<"is", "whispered">> :> 1) @@
    (<<"quick", "quickly">> :> 1) @@ (<<"suddenly", "suddenly">> :> 1) @@
    (<<"was", "was">> :> 1) @@ (<<"then", "then">> :> 1) @@ (<<"danger", "danger">> :> 1) @@
    (<<"crisis", "crisis">> :> 1) @@ (<<"is", "crisis">> :> 2) @@
    (<<"however", "however">> :> 1) @@ (<<"fear", "fear">> :> 1)

\* Atoms m that \b\w+ly\b matches with len(m) > 6.
LongAdverbs ==
    {"Suddenly", "Quietly", "quickly", "nervously", "quietly", "suddenly"}

\* The pairs <<w, a>> of a plot keyword w and an atom a with w in a.
PlotIn ==
    {<<"decided", "decided">>}

\* Atoms that end with 'I', 'me', 'my' or 'mine'.
FirstPersonEnd ==
    {"I"}

\* Atoms that end with 'he', 'she', 'they', 'his', 'her' or 'their'.
ThirdPersonEnd ==
    {"The", "he"}

\* Atoms that (Chapter|CHAPTER|Part|PART) matches as a whole under re.IGNORECASE.
HeadingWords ==
    {"Chapter", "CHAPTER", "Part", "PART", "chapter"}

\* Within[<<w, a>>]: where the word atom w occurs in the longer word atom a.
Within ==
    (<<"The", "Then">> :> "prefix") @@ (<<"he", "The">> :> "suffix") @@
    (<<"he", "Then">> :> "inside") @@ (<<"he", "then">> :> "inside") @@
    (<<"a", "Fear">> :> "inside") @@ (<<"a", "Panic">> :> "inside") @@
    (<<"a", "Threat">> :> "inside") @@ (<<"a", "Meanwhile">> :> "inside") @@
    (<<"a", "Halt">> :> "inside") @@ (<<"a", "Wait">> :> "inside") @@
    (<<"a", "Chapter">> :> "inside") @@ (<<"a", "Part">> :> "inside") @@
    (<<"a", "chapter">> :> "inside") @@ (<<"a", "said">> :> "inside") @@
    (<<"a", "asked">> :> "prefix") @@ (<<"a", "stated">> :> "inside") @@
    (<<"a", "really">> :> "inside") @@ (<<"a", "was">> :> "inside") @@
    (<<"a", "ran">> :> "inside") @@ (<<"a", "danger">> :> "inside") @@
    (<<"a", "fear">> :> "inside") @@ (<<"it", "Wait">> :> "suffix") @@
    (<<"it", "with">> :> "inside") @@ (<<"no", "not">> :> "prefix") @@
    (<<"m", "murmured">> :> "prefix") @@ (<<"m", "smile">> :> "inside")

\* Whitespace characters: what str.split(), str.strip() and \s match.
Space ==
    {" ", "\n"}

\* The characters of the class [.!?].
Ender ==
    {".", "!", "?"}

Atoms ==
    WordAtoms \cup PunctAtoms \cup Space

CharLen(a) ==
    IF a \in DOMAIN CharLenTab THEN CharLenTab[a] ELSE 1

Lower(a) ==
    IF a \in DOMAIN LowerTab THEN LowerTab[a] ELSE a

\* a.lower().count(w)
CountIn(w, a) ==
    IF <<w, a>> \in DOMAIN LowerCount THEN LowerCount[<<w, a>>] ELSE 0

-----------------------------------------------------------------------------
(* Sequences and numbers.                                                  *)

Min(S) ==
    CHOOSE x \in S : \A y \in S : x <= y

Max(S) ==
    CHOOSE x \in S : \A y \in S : x >= y

\* min(a, b) left out: b as it is.
Unclamped(a, b) ==
    b

MinOf(a, b) ==
    IF a <= b THEN a ELSE b

MaxOf(a, b) ==
    IF a >= b THEN a ELSE b

Abs(x) ==
    IF x < 0 THEN -x ELSE x

RECURSIVE SortRange(_, _, _)
\* The numbers of S that lie in lo..hi, ascending.
SortRange(S, lo, hi) ==
    IF lo > hi THEN <<>>
    ELSE IF lo = hi THEN (IF lo \in S THEN <<lo>> ELSE <<>>)
    ELSE LET mid == (lo + hi) \div 2
         IN  SortRange(S, lo, mid) \o SortRange(S, mid + 1, hi)

\* The numbers of S, ascending.
SortSet(S) ==
    IF S = {} THEN <<>> ELSE SortRange(S, Min(S), Max(S))

RECURSIVE SumRange(_, _, _)
\* xs[lo] + ... + xs[hi]
SumRange(xs, lo, hi) ==
    IF lo > hi THEN 0
    ELSE IF lo = hi THEN xs[lo]
    ELSE LET mid == (lo + hi) \div 2
         IN  SumRange(xs, lo, mid) + SumRange(xs, mid + 1, hi)

SumSeq(xs) ==
    SumRange(xs, 1, Len(xs))

RECURSIVE FlattenRange(_, _, _)
\* ss[lo] \o ... \o ss[hi]
FlattenRange(ss, lo, hi) ==
    IF lo > hi THEN <<>>
    ELSE IF lo = hi THEN ss[lo]
    ELSE LET mid == (lo + hi) \div 2
         IN  FlattenRange(ss, lo, mid) \o FlattenRange(ss, mid + 1, hi)

\* The concatenation of a sequence of sequences.
Flatten(ss) ==
    FlattenRange(ss, 1, Len(ss))

Squares(xs) ==
    [k \in 1..Len(xs) |-> xs[k] * xs[k]]

\* statistics.variance(xs) > c, for at least two data points: the sample
\* variance is (n * sum(x^2) - sum(x)^2) / (n * (n - 1)).
VarianceAbove(xs, c) ==
    LET Above(n, sum) == n * SumSeq(Squares(xs)) - sum * sum > c * n * (n - 1)
    IN  Above(Len(xs), SumSeq(xs))

\* statistics.variance(xs) < c
VarianceBelow(xs, c) ==
    LET Below(n, sum) == n * SumSeq(Squares(xs)) - sum * sum < c * n * (n - 1)
    IN  Below(Len(xs), SumSeq(xs))

\* A score of the source, given in thousandths, in the unit 1/8000.
Pts(thousandths) ==
    8 * thousandths

\* Optional[T]: None, or a value.
None ==
    <<>>

Some(x) ==
    <<x>>

-----------------------------------------------------------------------------
(* Strings.                                                                *)

\* Where the fields of t[lo..hi] start, the fields being its maximal runs of
\* atoms outside seps.
FieldStarts(t, lo, hi, seps) ==
    {i \in lo..hi : t[i] \notin seps /\ (i = lo \/ t[i-1] \in seps)}

\* The last position of the field of t[lo..hi] that starts at i.
FieldEnd(t, i, hi, seps) ==
    LET Before(stops) == IF stops = {} THEN hi ELSE Min(stops) - 1
    IN  Before({j \in i..hi : t[j] \in seps})

\* The fields of t[lo..hi] as <<first, last>> positions, in order.
Fields(t, lo, hi, seps) ==
    LET From(starts) ==
            [k \in 1..Len(starts) |-> <<starts[k], FieldEnd(t, starts[k], hi, seps)>>]
    IN  From(SortSet(FieldStarts(t, lo, hi, seps)))

\* len(s.split()) for s = t[lo..hi]
WordCount(t, lo, hi) ==
    Cardinality(FieldStarts(t, lo, hi, Space))

\* text.split(): the words, each a sequence of atoms.
Split(t) ==
    LET Words(f) == [k \in 1..Len(f) |-> SubSeq(t, f[k][1], f[k][2])]
    IN  Words(Fields(t, 1, Len(t), Space))

\* s.strip() is not empty, for s = t[lo..hi]
NotBlank(t, lo, hi) ==
    \E i \in lo..hi : t[i] \notin Space

\* len(word) of a word of text.split()
WordLen(w) ==
    SumSeq([k \in 1..Len(w) |-> CharLen(w[k])])

\* word.lower()
LowerWord(w) ==
    [k \in 1..Len(w) |-> Lower(w[k])]

\* [len(s.split()) for s in re.split(r'[.!?]+', text) if s.strip()]
SentenceLengths(t) ==
    LET Counts(f) == [k \in 1..Len(f) |-> WordCount(t, f[k][1], f[k][2])]
    IN  SelectSeq(Counts(Fields(t, 1, Len(t), Ender)), LAMBDA x : x > 0)

\* How many "\n" stand immediately before position i.
NLBefore(t, i) ==
    Cardinality({k \in 1..(i - 1) : \A j \in (i - k)..(i - 1) : t[j] = "\n"})

\* Where text.split('\n\n') finds its separators: left to right, without
\* overlap, so at every second line feed of a run of line feeds.
ParaSepStarts(t) ==
    {i \in 1..(Len(t) - 1) : t[i] = "\n" /\ t[i+1] = "\n" /\ NLBefore(t, i) % 2 = 0}

\* text.split('\n\n') as <<first, last>> positions; an empty piece has
\* last = first - 1.
ParaPieces(t) ==
    LET Between(seps) ==
            [k \in 1..(Len(seps) + 1) |->
                << IF k = 1 THEN 1 ELSE seps[k-1] + 2,
                   IF k = Len(seps) + 1 THEN Len(t) ELSE seps[k] - 1 >>]
    IN  Between(SortSet(ParaSepStarts(t)))

\* [p.strip() for p in text.split('\n\n') if p.strip()]
Paragraphs(t) ==
    SelectSeq(ParaPieces(t), LAMBDA p : NotBlank(t, p[1], p[2]))

\* re.findall(r'"[^"]*"', text) as <<first, last>> positions: the quotes
\* pair up in order.
Dialogues(t) ==
    LET Pairs(qs) == [k \in 1..(Len(qs) \div 2) |-> <<qs[2*k - 1], qs[2*k]>>]
    IN  Pairs(SortSet({i \in 1..Len(t) : t[i] = "\""}))

\* The position of the first quote after position i, 0 if there is none.
NextQuote(t, i) ==
    LET First(qs) == IF qs = {} THEN 0 ELSE Min(qs)
    IN  First({j \in (i + 1)..Len(t) : t[j] = "\""})

\* The first position at or after i that holds no whitespace (Len(t) + 1
\* if there is none): where \s* stops.
SkipSpace(t, i) ==
    LET First(rest) == IF rest = {} THEN Len(t) + 1 ELSE Min(rest)
    IN  First({j \in i..Len(t) : t[j] \notin Space})

\* \s+ at position i: the position after it, 0 if t[i] is no whitespace.
SomeSpace(t, i) ==
    IF i <= Len(t) /\ t[i] \in Space THEN SkipSpace(t, i) ELSE 0

At(t, i) ==
    IF i >= 1 /\ i <= Len(t) THEN t[i] ELSE ""

-----------------------------------------------------------------------------
(* QualityAssessor.                                                        *)

\* QualityMetrics: the nine fields of the dataclass.
QualityMetrics(r, s, c, p, d, f, t, q, o) ==
    [readability_score |-> r, story_structure_score |-> s,
     character_consistency_score |-> c, pacing_score |-> p,
     dialogue_effectiveness_score |-> d, narrative_flow_score |-> f,
     tension_score |-> t, prose_quality_score |-> q, overall_score |-> o]

\* is_better_than with the eight dimension tests left out.
better_overall(self, other) ==
    self.overall_score > other.overall_score

\* is_better_than with >= in the place of > for the overall score.
is_no_worse_than(self, other) ==
    /\ self.readability_score >= other.readability_score
    /\ self.story_structure_score >= other.story_structure_score
    /\ self.character_consistency_score >= other.character_consistency_score
    /\ self.pacing_score >= other.pacing_score
    /\ self.dialogue_effectiveness_score >= other.dialogue_effectiveness_score
    /\ self.narrative_flow_score >= other.narrative_flow_score
    /\ self.tension_score >= other.tension_score
    /\ self.prose_quality_score >= other.prose_quality_score
    /\ self.overall_score >= other.overall_score

\* QualityMetrics.is_better_than: no dimension is lower and the overall
\* score is higher.
is_better_than(self, other) ==
    /\ self.readability_score >= other.readability_score
    /\ self.story_structure_score >= other.story_structure_score
    /\ self.character_consistency_score >= other.character_consistency_score
    /\ self.pacing_score >= other.pacing_score
    /\ self.dialogue_effectiveness_score >= other.dialogue_effectiveness_score
    /\ self.narrative_flow_score >= other.narrative_flow_score
    /\ self.tension_score >= other.tension_score
    /\ self.prose_quality_score >= other.prose_quality_score
    /\ self.overall_score > other.overall_score

\* _assess_readability divides by the number of non-blank sentences: a text
\* with a word and no such sentence raises ZeroDivisionError.
ReadabilityRaises(text) ==
    Split(text) # <<>> /\ SentenceLengths(text) = <<>>

\* The score of _assess_readability for a text with words.
ReadabilityScore(words, lengths) ==
    LET complex == Cardinality({k \in 1..Len(words) : WordLen(words[k]) > 6})
        base    == 1000
        long    == IF Len(words) > 25 * Len(lengths) THEN base - 300
                   ELSE IF Len(words) > 20 * Len(lengths) THEN base - 100
                   ELSE base
        varied  == long + (IF Len(lengths) > 1 /\ VarianceAbove(lengths, 10)
                           THEN 100 ELSE 0)
        score   == varied - (IF 10 * complex > 3 * Len(words) THEN 200 ELSE 0)
    IN  Pts(MaxOf(0, MinOf(1000, score)))

\* _assess_readability without "if not words or not sentences".
readability_unguarded(text) ==
    ReadabilityScore(Split(text), SentenceLengths(text))

_assess_readability(text) ==
    LET Guarded(words, lengths) ==
            IF words = <<>> THEN 0 ELSE ReadabilityScore(words, lengths)
    IN  Guarded(Split(text), SentenceLengths(text))

transition_words ==
    <<"meanwhile", "later", "suddenly", "then", "after", "before">>

\* word in p.lower(), for the paragraph p = t[p[1]..p[2]]
InLower(w, t, p) ==
    \E i \in p[1]..p[2] : CountIn(w, t[i]) > 0

_assess_story_structure(text) ==
    LET Score(n, transitions, total) ==
            LET s1 == 500 + (IF n >= 3 THEN 200 ELSE 0)
                s2 == s1 + (IF transitions > 0 THEN MinOf(200, transitions * 50) ELSE 0)
                s3 == s2 + (IF 50 * n <= total /\ total <= 150 * n THEN 100 ELSE 0)
            IN  IF n = 0 THEN 0 ELSE Pts(MinOf(1000, s3))
        Counted(paragraphs) ==
            Score(Len(paragraphs),
                  Cardinality({<<k, j>> \in (DOMAIN paragraphs) \X (DOMAIN transition_words) :
                      InLower(transition_words[j], text, paragraphs[k])}),
                  SumSeq([k \in DOMAIN paragraphs |->
                      WordCount(text, paragraphs[k][1], paragraphs[k][2])]))
    IN  Counted(Paragraphs(text))

\* common_words of _assess_character_consistency
common_words_assess ==
    {"The", "This", "That", "Then", "When", "Where", "What", "Who", "How"}

\* set(re.findall(r'\b[A-Z][a-z]+\b', text))
NamesOf(text) ==
    {text[i] : i \in 1..Len(text)} \cap NameAtoms

\* ([A-Z][a-z]+\s+said|said\s+[A-Z][a-z]+) matches at position i
AttributionAt(t, i) ==
    \E next \in {SomeSpace(t, i + 1)} :
        \/ At(t, i) \in NameAtoms /\ next # 0 /\ At(t, next) = "said"
        \/ At(t, i) = "said" /\ next # 0 /\ At(t, next) \in NameAtoms

\* re.findall(r'"[^"]*"\s*([A-Z][a-z]+\s+said|said\s+[A-Z][a-z]+)', text)
\* finds something
HasDialoguePattern(t) ==
    \E i \in 1..Len(t) :
        \E close \in {NextQuote(t, i)} :
            /\ t[i] = "\""
            /\ close # 0
            /\ AttributionAt(t, SkipSpace(t, close + 1))

\* re.findall(r'([A-Z][a-z]+)\s+(walked|ran|said|looked|turned)', text)
\* finds something
HasActionPattern(t) ==
    \E i \in 1..Len(t) :
        \E next \in {SomeSpace(t, i + 1)} :
            /\ t[i] \in NameAtoms
            /\ next # 0
            /\ At(t, next) \in ActionStart

_assess_character_consistency(text) ==
    LET s1 == 500 + (IF HasDialoguePattern(text) THEN 200 ELSE 0)
        s2 == s1 + (IF HasActionPattern(text) THEN 200 ELSE 0)
    IN  IF NamesOf(text) \ common_words_assess = {} THEN Pts(700)
        ELSE Pts(MinOf(1000, s2))

\* sum(1 for length in sentence_lengths if length <= 5)
ShortSentences(lengths) ==
    Cardinality({k \in 1..Len(lengths) : lengths[k] <= 5})

_assess_pacing(text) ==
    LET Score(lengths, short) ==
            LET s1 == 500 + (IF Len(lengths) > 1 /\ VarianceAbove(lengths, 20)
                             THEN 300 ELSE 0)
                s2 == s1 + (IF short > 0 THEN MinOf(200, short * 20) ELSE 0)
            IN  IF lengths = <<>> THEN 0 ELSE Pts(MinOf(1000, s2))
        Counted(lengths) ==
            Score(lengths, ShortSentences(lengths))
    IN  Counted(SentenceLengths(text))

\* The first alternative of the dialogue tag pattern, "[^"]*"\s*[a-z]+\s+said
\* under re.IGNORECASE, at position i: the position of its last atom, 0 if
\* it does not match.
TagAfterQuote(t, i) ==
    LET Verb(close, word, verb) ==
            IF /\ At(t, i) = "\""
               /\ close # 0
               /\ At(t, word) \in LetterAtoms
               /\ verb # 0
               /\ Lower(At(t, verb)) = "said"
            THEN verb ELSE 0
        Word(close, word) == Verb(close, word, SomeSpace(t, word + 1))
        Close(close)      == Word(close, SkipSpace(t, close + 1))
    IN  Close(NextQuote(t, i))

\* The second alternative, said\s+[a-z]+
TagAfterSaid(t, i) ==
    LET Word(word) ==
            IF Lower(At(t, i)) = "said" /\ word # 0 /\ At(t, word) \in LetterAtoms
            THEN word ELSE 0
    IN  Word(SomeSpace(t, i + 1))

\* Where a match of the tag pattern that starts at position i ends, 0 if
\* none starts there: the first alternative is tried first.
TagAt(t, i) ==
    LET First(quoted) == IF quoted # 0 THEN quoted ELSE TagAfterSaid(t, i)
    IN  First(TagAfterQuote(t, i))

RECURSIVE CountTags(_, _)
\* len(re.findall(r'"[^"]*"\s*[a-z]+\s+said|said\s+[a-z]+', text,
\* re.IGNORECASE)), scanning from position i: matches do not overlap.
CountTags(t, i) ==
    LET After(starts) ==
            IF starts = {} THEN 0 ELSE 1 + CountTags(t, TagAt(t, Min(starts)) + 1)
    IN  After({j \in i..Len(t) : TagAt(t, j) # 0})

\* sum(1 for d in dialogue_matches if "'" in d)
Contractions(t, dialogue_matches) ==
    Cardinality({k \in 1..Len(dialogue_matches) :
        \E i \in dialogue_matches[k][1]..dialogue_matches[k][2] : t[i] = "'"})

_assess_dialogue_effectiveness(text) ==
    LET Score(dialogue_matches, n, tags) ==
            LET lengths == [k \in 1..n |->
                    WordCount(text, dialogue_matches[k][1], dialogue_matches[k][2])]
                s1 == 500 + (IF n > 1 /\ VarianceAbove(lengths, 5) THEN 200 ELSE 0)
                s2 == s1 + (IF 3 * n <= 10 * tags /\ 10 * tags <= 7 * n THEN 200 ELSE 0)
                s3 == s2 + (IF Contractions(text, dialogue_matches) > 0 THEN 100 ELSE 0)
            IN  IF n = 0 THEN Pts(600) ELSE Pts(MinOf(1000, s3))
        Counted(dialogue_matches) ==
            Score(dialogue_matches, Len(dialogue_matches), CountTags(text, 1))
    IN  Counted(Dialogues(text))

flow_transition_words ==
    {"however", "meanwhile", "therefore", "consequently", "furthermore",
     "additionally", "moreover", "nevertheless", "nonetheless", "thus"}

\* paragraphs[i].split('.')[0] as <<first, last>> positions
FirstSentence(t, p) ==
    <<p[1], FieldEnd(t, p[1], p[2], {"."})>>

_assess_narrative_flow(text) ==
    LET Score(n, found) ==
            IF n < 2 THEN Pts(500)
            ELSE Pts(MinOf(1000, 500 + (IF found > 0 THEN MinOf(300, found * 100) ELSE 0)))
        Counted(paragraphs) ==
            Score(Len(paragraphs),
                  Cardinality({k \in 2..Len(paragraphs) :
                      \E w \in flow_transition_words :
                          InLower(w, text, FirstSentence(text, paragraphs[k]))}))
    IN  Counted(Paragraphs(text))

tension_words ==
    {"suddenly", "urgent", "danger", "fear", "panic", "rush", "quick",
     "immediately", "emergency", "crisis", "threat", "worried", "anxious"}

_assess_tension(text) ==
    LET Score(tension_count, short) ==
            LET s1 == 500 + (IF tension_count > 0
                             THEN MinOf(300, tension_count * 50) ELSE 0)
                s2 == s1 + (IF short > 0 THEN MinOf(200, short * 20) ELSE 0)
            IN  Pts(MinOf(1000, s2))
    IN  Score(Cardinality({w \in tension_words : InLower(w, text, <<1, Len(text)>>)}),
              ShortSentences(SentenceLengths(text)))

\* weak_verbs of _assess_prose_quality
weak_verbs_assess ==
    {"went", "said", "looked", "walked", "was", "were"}

\* word.endswith('ly') for a word of text.split()
EndsWithLy(w) ==
    w[Len(w)] \in LyAtoms

_assess_prose_quality(text) ==
    LET Score(n, unique, adverbs, weak) ==
            LET s1 == 500 + (IF 2 * unique > n THEN 200 ELSE 0)
                s2 == s1 + (IF 20 * adverbs < n THEN 100
                            ELSE IF 10 * adverbs > n THEN -100 ELSE 0)
                s3 == s2 + (IF 10 * weak < n THEN 200 ELSE 0)
            IN  IF n = 0 THEN 0 ELSE Pts(MaxOf(0, MinOf(1000, s3)))
        Counted(words) ==
            Score(Len(words),
                  Cardinality({LowerWord(words[k]) : k \in DOMAIN words}),
                  Cardinality({k \in DOMAIN words : EndsWithLy(words[k])}),
                  Cardinality({k \in DOMAIN words :
                      Len(words[k]) = 1 /\ Lower(words[k][1]) \in weak_verbs_assess}))
    IN  Counted(Split(text))

\* statistics.mean of the eight scores: every score is a multiple of 8.
Mean8(r, s, c, p, d, f, t, q) ==
    (r + s + c + p + d + f + t + q) \div 8

assess_quality(text) ==
    LET Metrics(readability, structure, character, pacing, dialogue, flow, tension, prose) ==
            QualityMetrics(readability, structure, character, pacing, dialogue, flow,
                           tension, prose,
                           Mean8(readability, structure, character, pacing, dialogue,
                                 flow, tension, prose))
    IN  Metrics(_assess_readability(text),
                _assess_story_structure(text),
                _assess_character_consistency(text),
                _assess_pacing(text),
                _assess_dialogue_effectiveness(text),
                _assess_narrative_flow(text),
                _assess_tension(text),
                _assess_prose_quality(text))

-----------------------------------------------------------------------------
(* ProblemAnalyzer.                                                        *)

\* One issue of a ProblemAnalysis list: the message, with {} where its
\* f-string puts the number n or the words.
Issue(text, n, words) ==
    [text |-> text, n |-> n, words |-> words]

\* fragment in str(issues), 'fragment' in issue: each fragment the rewrite
\* engine and the report look for occurs in exactly one message of its list.
HasIssue(issues, text) ==
    \E k \in 1..Len(issues) : issues[k].text = text

_analyze_structural_issues(text) ==
    LET Issues(n, long, short) ==
            (IF n < 3
             THEN <<Issue("Chapter may be too short or lack proper structure", 0, <<>>)>>
             ELSE <<>>)
            \o (IF long > 0 THEN <<Issue("Found {} overly long paragraphs", long, <<>>)>>
                ELSE <<>>)
            \o (IF 10 * short > 3 * n
                THEN <<Issue("Too many very short paragraphs - may indicate choppy structure",
                             0, <<>>)>>
                ELSE <<>>)
        Counted(words) ==
            Issues(Len(words),
                   Cardinality({k \in DOMAIN words : words[k] > 200}),
                   Cardinality({k \in DOMAIN words : words[k] < 10}))
        Measured(paragraphs) ==
            Counted([k \in DOMAIN paragraphs |->
                WordCount(text, paragraphs[k][1], paragraphs[k][2])])
    IN  Measured(Paragraphs(text))

\* any(indicator in text for indicator in indicators): every indicator is a
\* word ending followed by a blank.
HasIndicator(t, endings) ==
    \E i \in 1..(Len(t) - 1) : t[i] \in endings /\ t[i+1] = " "

past_tense_indicators ==
    <<"was", "were", "had", "did">>

present_tense_indicators ==
    <<"is", "are", "has", "does">>

\* sum(text.lower().count(word) for word in indicators)
TenseCount(t, indicators) ==
    SumSeq([k \in 1..Len(indicators) |->
        SumSeq([i \in 1..Len(t) |-> CountIn(indicators[k], t[i])])])

_analyze_narrative_issues(text) ==
    LET Issues(past_count, present_count) ==
            (IF HasIndicator(text, FirstPersonEnd) /\ HasIndicator(text, ThirdPersonEnd)
             THEN <<Issue("Potential POV inconsistency - mixing first and third person",
                          0, <<>>)>>
             ELSE <<>>)
            \o (IF /\ past_count > 0
                   /\ present_count > 0
                   /\ Abs(past_count - present_count) < MinOf(past_count, present_count)
                THEN <<Issue("Potential tense inconsistency", 0, <<>>)>>
                ELSE <<>>)
    IN  Issues(TenseCount(text, past_tense_indicators),
               TenseCount(text, present_tense_indicators))

\* common_words of _analyze_character_issues
common_words_analyze ==
    {"The", "This", "That", "Then", "When", "Where", "What", "Who", "How", "But", "And"}

\* "[^"]*"\s*[^"]*?(said|asked|replied|whispered|shouted) at position i: the
\* position of the atom the match ends in, 0 if it does not match.  The lazy
\* [^"]*? stops at the first attribution verb and cannot pass a quote.
AttributedAt(t, i) ==
    LET First(verbs) ==
            IF At(t, i) = "\"" /\ verbs # {} THEN Min(verbs) ELSE 0
        Until(close, last) ==
            First(IF close = 0 THEN {}
                  ELSE {j \in (close + 1)..last : t[j] \in AttributionAtoms})
        Stop(close, stop) ==
            Until(close, IF stop = 0 THEN Len(t) ELSE stop - 1)
        Close(close) ==
            Stop(close, IF close = 0 THEN 0 ELSE NextQuote(t, close))
    IN  Close(NextQuote(t, i))

RECURSIVE CountAttributed(_, _)
\* len(re.findall(r'"[^"]*"\s*[^"]*?(said|asked|replied|whispered|shouted)',
\* text, re.IGNORECASE)), scanning from position i
CountAttributed(t, i) ==
    LET After(starts) ==
            IF starts = {} THEN 0
            ELSE 1 + CountAttributed(t, AttributedAt(t, Min(starts)) + 1)
    IN  After({j \in i..Len(t) : AttributedAt(t, j) # 0})

_analyze_character_issues(text) ==
    LET Issues(character_names, dialogue_lines, attributed) ==
            (IF Cardinality(character_names) > 10
             THEN <<Issue("Too many character names introduced - may confuse readers",
                          0, <<>>)>>
             ELSE <<>>)
            \o (IF dialogue_lines > 0 /\ 10 * attributed < 3 * dialogue_lines
                THEN <<Issue("Many dialogue lines lack clear attribution", 0, <<>>)>>
                ELSE <<>>)
    IN  Issues(NamesOf(text) \ common_words_analyze,
               Len(Dialogues(text)),
               CountAttributed(text, 1))

_analyze_pacing_issues(text) ==
    LET Issues(lengths, n, total) ==
            IF n = 0 THEN <<>>
            ELSE (IF total > 25 * n
                  THEN <<Issue("Sentences are too long on average - may slow pacing",
                               0, <<>>)>>
                  ELSE IF total < 8 * n
                  THEN <<Issue("Sentences are too short on average - may feel choppy",
                               0, <<>>)>>
                  ELSE <<>>)
                 \o (IF n > 5 /\ VarianceBelow(lengths, 10)
                     THEN <<Issue("Lack of sentence length variety - monotonous pacing",
                                  0, <<>>)>>
                     ELSE <<>>)
        Counted(lengths) ==
            Issues(lengths, Len(lengths), SumSeq(lengths))
    IN  Counted(SentenceLengths(text))

\* text.lower().count(' said')
SaidCount(t) ==
    Cardinality({i \in 1..(Len(t) - 1) : t[i] = " " /\ Lower(t[i+1]) = "said"})

_analyze_dialogue_issues(text) ==
    LET Issues(dialogue_matches, n, long) ==
            IF n = 0 THEN <<>>
            ELSE (IF long > 0
                  THEN <<Issue("Found {} overly long dialogue segments", long, <<>>)>>
                  ELSE <<>>)
                 \o (IF Contractions(text, dialogue_matches) = 0 /\ n > 3
                     THEN <<Issue("Dialogue lacks contractions - may sound unnatural",
                                  0, <<>>)>>
                     ELSE <<>>)
                 \o (IF 5 * SaidCount(text) > 4 * n
                     THEN <<Issue("Overuse of 'said' - dialogue tags lack variety",
                                  0, <<>>)>>
                     ELSE <<>>)
        Counted(dialogue_matches) ==
            Issues(dialogue_matches, Len(dialogue_matches),
                   Cardinality({k \in DOMAIN dialogue_matches :
                       WordCount(text, dialogue_matches[k][1], dialogue_matches[k][2])
                           > 50}))
    IN  Counted(Dialogues(text))

\* weak_verbs of _analyze_prose_issues
weak_verbs_analyze ==
    {"went", "got", "put", "look", "come", "go"}

\* The words the repetition check skips.
repetition_stopwords ==
    {"that", "with", "have", "this", "they", "were", "been"}

\* [(word, count) for word, count in word_freq.items() if count > 5 and
\* word not in [...]]: the lower-cased words of more than 4 characters, in
\* the order of their first occurrence.
RepeatedWords(words) ==
    LET Counted(low) ==
            LET count(k) == Cardinality({j \in DOMAIN low : low[j] = low[k]})
                Listed(order) ==
                    [i \in 1..Len(order) |-> <<low[order[i]], count(order[i])>>]
            IN  Listed(SortSet({k \in DOMAIN low :
                    /\ WordLen(words[k]) > 4
                    /\ \A j \in 1..(k - 1) : low[j] # low[k]
                    /\ count(k) > 5
                    /\ ~(Len(low[k]) = 1 /\ low[k][1] \in repetition_stopwords)}))
    IN  Counted([k \in DOMAIN words |-> LowerWord(words[k])])

_analyze_prose_issues(text) ==
    LET Issues(n, adverbs, weak, repeated) ==
            IF n = 0 THEN <<>>
            ELSE (IF 10 * adverbs > n
                  THEN <<Issue("Excessive use of adverbs ({} found) - consider stronger verbs",
                               adverbs, <<>>)>>
                  ELSE <<>>)
                 \o (IF 20 * weak > n
                     THEN <<Issue("Overuse of weak verbs - consider more specific alternatives",
                                  0, <<>>)>>
                     ELSE <<>>)
                 \o (IF repeated # <<>>
                     THEN <<Issue("Repetitive word usage: {}", 0,
                                  SubSeq(repeated, 1, MinOf(3, Len(repeated))))>>
                     ELSE <<>>)
        Counted(words) ==
            Issues(Len(words),
                   Cardinality({k \in DOMAIN words : EndsWithLy(words[k])}),
                   Cardinality({k \in DOMAIN words :
                       Len(words[k]) = 1 /\ words[k][1] \in weak_verbs_analyze}),
                   RepeatedWords(words))
    IN  Counted(Split(text))

\* The ProblemAnalysis of six lists of issues; its severity is the number of
\* the issues over 20, at most 1.
ProblemAnalysis(structural_issues, narrative_issues, character_issues, pacing_issues, dialogue_issues, prose_issues) ==
    LET Severity(total_issues) ==
            [structural_issues |-> structural_issues,
             narrative_issues  |-> narrative_issues,
             character_issues  |-> character_issues,
             pacing_issues     |-> pacing_issues,
             dialogue_issues   |-> dialogue_issues,
             prose_issues      |-> prose_issues,
             severity_score    |-> Pts(MinOf(1000, total_issues * 50))]
    IN  Severity(Len(structural_issues) + Len(narrative_issues)
                 + Len(character_issues) + Len(pacing_issues)
                 + Len(dialogue_issues) + Len(prose_issues))

analyze_problems(text) ==
    ProblemAnalysis(_analyze_structural_issues(text),
                    _analyze_narrative_issues(text),
                    _analyze_character_issues(text),
                    _analyze_pacing_issues(text),
                    _analyze_dialogue_issues(text),
                    _analyze_prose_issues(text))

-----------------------------------------------------------------------------
(* The rewrite engine of ChapterRewriter.                                  *)

\* re.sub(r'\b\w+ly\b', lambda m: '' if len(m.group()) > 6 else m.group(), s)
RemoveAdverbs(t) ==
    SelectSeq(t, LAMBDA a : a \notin LongAdverbs)

\* re.sub(r'\s+', ' ', s): every run of whitespace becomes one blank.
CollapseSpace(t) ==
    LET Kept(keep) ==
            [k \in 1..Len(keep) |-> IF t[keep[k]] \in Space THEN " " ELSE t[keep[k]]]
    IN  Kept(SortSet({i \in 1..Len(t) :
            t[i] \notin Space \/ i = 1 \/ t[i-1] \notin Space}))

alternatives ==
    <<"replied", "asked", "whispered", "murmured", "stated">>

\* for alt in alternatives: s = s.replace(' said', ' ' + alt, 1): the k-th
\* ' said' of the text becomes the k-th alternative.
ReplaceSaid(t) ==
    LET Replaced(found) ==
            [i \in 1..Len(t) |->
                IF \E k \in 1..MinOf(Len(found), Len(alternatives)) : found[k] = i
                THEN alternatives[CHOOSE k \in 1..Len(found) : found[k] = i]
                ELSE t[i]]
    IN  Replaced(SortSet({i \in 2..Len(t) : t[i-1] = " " /\ t[i] = "said"}))

_light_rewrite(text, problems) ==
    LET Tags(r1) ==
            IF HasIssue(problems.dialogue_issues,
                        "Overuse of 'said' - dialogue tags lack variety")
            THEN ReplaceSaid(r1) ELSE r1
    IN  Tags(IF HasIssue(problems.prose_issues,
                         "Excessive use of adverbs ({} found) - consider stronger verbs")
             THEN CollapseSpace(RemoveAdverbs(text)) ELSE text)

\* ' '.join(words)
JoinWords(words) ==
    Flatten([k \in 1..Len(words) |-> IF k = 1 THEN words[k] ELSE <<" ">> \o words[k]])

\* A run of more than 20 words without [.!?] is cut in two sentences at its
\* middle word; a shorter one stays as it is.
SplitSentence(sentence) ==
    LET Halves(words, mid) ==
            IF Len(words) > 20
            THEN JoinWords(SubSeq(words, 1, mid)) \o <<".", " ">>
                 \o JoinWords(SubSeq(words, mid + 1, Len(words)))
            ELSE sentence
        Cut(words) == Halves(words, Len(words) \div 2)
    IN  Cut(Split(sentence))

\* ''.join(new_sentences) over re.split(r'([.!?]+)', s): the runs of [.!?]
\* stay, the pieces between them go through SplitSentence.
SplitLongSentences(t) ==
    LET Joined(f, n) ==
            Flatten([k \in 1..n |->
                SubSeq(t, IF k = 1 THEN 1 ELSE f[k-1][2] + 1, f[k][1] - 1)
                \o SplitSentence(SubSeq(t, f[k][1], f[k][2]))])
            \o (IF n = 0 THEN t ELSE SubSeq(t, f[n][2] + 1, Len(t)))
        Pieces(f) == Joined(f, Len(f))
    IN  Pieces(Fields(t, 1, Len(t), Ender))

\* Where a paragraph t[lo..hi] of more than 150 words is cut in two:
\* sentences = re.split(r'([.!?]+)', para) has 2m + 1 elements for m runs of
\* [.!?], and the cut comes after its first m elements.
ParagraphCut(t, lo, hi) ==
    LET Cut(m, run) ==
            IF m = 0 THEN lo
            ELSE IF m % 2 = 1 THEN run
            ELSE FieldEnd(t, run, hi, Atoms \ Ender) + 1
        Middle(starts, m) == Cut(m, starts[(m + 1) \div 2])
        Runs(starts)      == Middle(starts, Len(starts))
    IN  Runs(SortSet({i \in lo..hi : t[i] \in Ender /\ (i = lo \/ t[i-1] \notin Ender)}))

RECURSIVE InsertBreaks(_, _)
\* t with a paragraph break put before each position of cuts (descending).
InsertBreaks(t, cuts) ==
    IF cuts = <<>> THEN t
    ELSE InsertBreaks(SubSeq(t, 1, Head(cuts) - 1) \o <<"\n", "\n">>
                          \o SubSeq(t, Head(cuts), Len(t)),
                      Tail(cuts))

\* '\n\n'.join(new_paragraphs): every paragraph of more than 150 words is cut.
SplitLongParagraphs(t) ==
    LET Broken(up) ==
            InsertBreaks(t, [k \in 1..Len(up) |-> up[Len(up) + 1 - k]])
        Cuts(pieces) ==
            Broken(SortSet({ParagraphCut(t, pieces[k][1], pieces[k][2]) :
                k \in {j \in 1..Len(pieces) :
                          WordCount(t, pieces[j][1], pieces[j][2]) > 150}}))
    IN  Cuts(ParaPieces(t))

\* The steps of _moderate_rewrite after the light rewrite: the long sentences
\* are cut if the lack of variety is reported, then the long paragraphs if
\* they are.
ModerateSteps(rewritten, problems) ==
    LET Paragraphed(r2) ==
            IF HasIssue(problems.structural_issues, "Found {} overly long paragraphs")
            THEN SplitLongParagraphs(r2) ELSE r2
    IN  Paragraphed(IF HasIssue(problems.pacing_issues,
                                "Lack of sentence length variety - monotonous pacing")
                    THEN SplitLongSentences(rewritten) ELSE rewritten)

\* _moderate_rewrite without its first line, the light rewrite.
moderate_without_light(text, problems) ==
    ModerateSteps(text, problems)

_moderate_rewrite(text, problems) ==
    ModerateSteps(_light_rewrite(text, problems), problems)

emotions ==
    { <<"with", " ", "a", " ", "smile">>, <<"nervously">>,
      <<"with", " ", "confidence">>, <<"quietly">> }

\* dialogue_pattern = r'"([^"]*)"(\s*[^"]*?said[^.!?]*[.!?])' at position i:
\* <<the closing quote, the last position of the match>>, <<0, 0>> if it
\* does not match.  The lazy [^"]*? stops at the first 'said' and cannot pass
\* a quote; [^.!?]* runs to the first of [.!?] after it.
DialogueMatch(t, i) ==
    LET Matched(close, ends) ==
            IF At(t, i) = "\"" /\ ends # {} THEN <<close, Min(ends)>> ELSE <<0, 0>>
        Said(close, saids) ==
            Matched(close, IF saids = {} THEN {}
                           ELSE {j \in (Min(saids) + 1)..Len(t) : t[j] \in Ender})
        Until(close, last) ==
            Said(close, IF close = 0 THEN {}
                        ELSE {j \in (close + 1)..last : t[j] = "said"})
        Stop(close, stop) ==
            Until(close, IF stop = 0 THEN Len(t) ELSE stop - 1)
        Close(close) ==
            Stop(close, IF close = 0 THEN 0 ELSE NextQuote(t, close))
    IN  Close(NextQuote(t, i))

\* attribution.replace('said', f'said {emotion}')
AddEmotion(attribution, emotion) ==
    Flatten([k \in 1..Len(attribution) |->
        IF attribution[k] = "said" THEN <<"said", " ">> \o emotion
        ELSE <<attribution[k]>>])

RECURSIVE ImproveDialogue(_, _)
\* re.sub(dialogue_pattern, improve_dialogue, s) from position i on: every
\* result random.choice(emotions) allows.  Matches are taken left to right
\* and do not overlap.
ImproveDialogue(t, i) ==
    LET Improved(before, attribution, rests) ==
            IF WordCount(attribution, 1, Len(attribution)) < 5
            THEN {before \o AddEmotion(attribution, e) \o rest :
                      e \in emotions, rest \in rests}
            ELSE {before \o attribution \o rest : rest \in rests}
        From(m) ==
            Improved(SubSeq(t, i, m[1]), SubSeq(t, m[1] + 1, m[2]),
                     ImproveDialogue(t, m[2] + 1))
        First(starts) ==
            IF starts = {} THEN {SubSeq(t, i, Len(t))}
            ELSE From(DialogueMatch(t, Min(starts)))
    IN  First({j \in i..Len(t) : DialogueMatch(t, j)[2] # 0})

\* The texts _comprehensive_rewrite can return.
_comprehensive_rewrite(text, problems) ==
    ImproveDialogue(_moderate_rewrite(text, problems), 1)

\* PreservationControls: the two fields the rewriter reads.
PreservationControls(preserve_dialogue, preserve_character_names) ==
    [preserve_dialogue |-> preserve_dialogue,
     preserve_character_names |-> preserve_character_names]

\* The word atom w ends the atom a / starts the atom a / occurs in it.
IsSuffix(w, a) ==
    w = a \/ (<<w, a>> \in DOMAIN Within /\ Within[<<w, a>>] \in {"suffix", "both"})

IsPrefix(w, a) ==
    w = a \/ (<<w, a>> \in DOMAIN Within /\ Within[<<w, a>>] \in {"prefix", "both"})

IsInside(w, a) ==
    w = a \/ <<w, a>> \in DOMAIN Within

\* d in s, at position i of s: the string d lies in s from the atom s[i] on.
\* Its first atom may be the end of a longer word and its last atom the
\* start of one.
OccursAt(d, s, i) ==
    \E n \in {Len(d)} :
        /\ i + n - 1 <= Len(s)
        /\ IF n = 1 THEN IsInside(d[1], s[i])
           ELSE /\ IsSuffix(d[1], s[i])
                /\ IsPrefix(d[n], s[i + n - 1])
                /\ \A k \in 2..(n - 1) : d[k] = s[i + k - 1]

\* d in s
Contains(s, d) ==
    d = <<>> \/ \E i \in 1..Len(s) : OccursAt(d, s, i)

RECURSIVE PreserveDialogue(_, _, _)
\* for dialogue in controls.preserve_dialogue: a dialogue of the original
\* that the rewrite lost is put at the end.
PreserveDialogue(rewritten, original, dialogues) ==
    IF dialogues = <<>> THEN rewritten
    ELSE LET Kept(d) ==
                 IF Contains(original, d) /\ ~Contains(rewritten, d)
                 THEN rewritten \o <<"\n", "\n">> \o d ELSE rewritten
         IN  PreserveDialogue(Kept(Head(dialogues)), original, Tail(dialogues))

\* The names the name preservation leaves alone.
preservation_stopwords ==
    {"The", "This", "That", "Then", "When", "Where"}

\* ' name ' in s
HasSpacedWord(s, name) ==
    \E i \in 2..(Len(s) - 1) : s[i-1] = " " /\ s[i] = name /\ s[i+1] = " "

\* rewritten.replace(' he ', f' {name} ', 1), when ' name ' is in the
\* original and not in the rewrite.
RestoreName(rewritten, original, name) ==
    LET Restored(hes) ==
            IF /\ name \notin preservation_stopwords
               /\ HasSpacedWord(original, name)
               /\ ~HasSpacedWord(rewritten, name)
               /\ hes # {}
            THEN [rewritten EXCEPT ![Min(hes)] = name]
            ELSE rewritten
    IN  Restored({i \in 2..(Len(rewritten) - 1) :
            rewritten[i-1] = " " /\ rewritten[i] = "he" /\ rewritten[i+1] = " "})

\* The hash seeds of a process. The source iterates over sets of str, and
\* the order of such a set follows the hashes of its elements, which the
\* seed of the process fixes: within one process equal sets are iterated
\* in one order, and another process can iterate them in another.
HashSeeds ==
    {0, 1}

\* list(names) in a process with this seed: the order of NameList, or the
\* opposite one.
IterationOrder(names, seed) ==
    LET Listed(up) ==
            IF seed = 0 THEN up ELSE [k \in 1..Len(up) |-> up[Len(up) + 1 - k]]
    IN  Listed(SelectSeq(NameList, LAMBDA name : name \in names))

RECURSIVE RestoreNames(_, _, _)
\* for name in missing_names, the names taken in the order of the iteration
RestoreNames(rewritten, original, missing_names) ==
    IF missing_names = <<>> THEN rewritten
    ELSE RestoreNames(RestoreName(rewritten, original, Head(missing_names)), original,
                      Tail(missing_names))

\* _apply_preservation_controls in a process with this hash seed.
_apply_preservation_controls(rewritten, original, controls, seed) ==
    LET Names(r1) ==
            IF controls.preserve_character_names
            THEN RestoreNames(r1, original,
                              IterationOrder(NamesOf(original) \ NamesOf(r1), seed))
            ELSE r1
    IN  Names(PreserveDialogue(rewritten, original, controls.preserve_dialogue))

\* The texts _generate_rewrite can return in a process with this hash seed.
_generate_rewrite(text, problems, intensity, preservation_controls, seed) ==
    LET Preserved(rewritten) ==
            IF preservation_controls = None THEN rewritten
            ELSE {_apply_preservation_controls(r, text, preservation_controls[1], seed) :
                     r \in rewritten}
    IN  Preserved(IF intensity = "LIGHT" THEN {_light_rewrite(text, problems)}
                  ELSE IF intensity = "MODERATE"
                  THEN {_moderate_rewrite(text, problems)}
                  ELSE _comprehensive_rewrite(text, problems))

-----------------------------------------------------------------------------
(* ChapterDetector.                                                        *)

\* len(s) for s = t[1..i-1]: the character offset at which atom i starts.
Offset(t, i) ==
    SumSeq([k \in 1..(i - 1) |-> CharLen(t[k])])

\* len(text)
TextLen(t) ==
    Offset(t, Len(t) + 1)

\* text[start:end] for character offsets that fall between atoms.
Slice(t, start, end) ==
    LET Cut(inside) ==
            IF inside = {} THEN <<>> ELSE SubSeq(t, Min(inside), Max(inside))
    IN  Cut({i \in 1..Len(t) : \E at \in {Offset(t, i)} : start <= at /\ at < end})

\* manuscript.split('\n') as <<first, last>> positions; an empty line has
\* last = first - 1.
Lines(t) ==
    LET Between(nl) ==
            [k \in 1..(Len(nl) + 1) |->
                << IF k = 1 THEN 1 ELSE nl[k-1] + 1,
                   IF k = Len(nl) + 1 THEN Len(t) ELSE nl[k] - 1 >>]
    IN  Between(SortSet({i \in 1..Len(t) : t[i] = "\n"}))

\* s.strip()
Strip(s) ==
    LET Cut(solid) ==
            IF solid = {} THEN <<>> ELSE SubSeq(s, Min(solid), Max(solid))
    IN  Cut({i \in 1..Len(s) : s[i] \notin Space})

\* line.strip() of the line with index i (from 1) of lines
LineStripped(t, lines, i) ==
    Strip(SubSeq(t, lines[i][1], lines[i][2]))

chapter_patterns ==
    << "^Chapter\\s+\\d+", "^CHAPTER\\s+\\d+", "^\\d+\\.", "^Part\\s+\\d+", "^PART\\s+\\d+",
       "^\\*\\s*\\*\\s*\\*", "^-{3,}", "^#{1,3}\\s" >>

\* ^word\s+\d+
WordNumber(word, line, ignorecase) ==
    \E next \in {SomeSpace(line, 2)} :
        /\ IF ignorecase THEN Lower(At(line, 1)) = Lower(word) ELSE At(line, 1) = word
        /\ next # 0
        /\ At(line, next) \in DigitAtoms

\* re.match(pattern, line, re.IGNORECASE) for a pattern of chapter_patterns
\* (with ignorecase), re.match(pattern, line) without.
Match(pattern, line, ignorecase) ==
    CASE pattern = "^Chapter\\s+\\d+" -> WordNumber("Chapter", line, ignorecase)
      [] pattern = "^CHAPTER\\s+\\d+" -> WordNumber("CHAPTER", line, ignorecase)
      [] pattern = "^\\d+\\."         -> At(line, 1) \in DigitAtoms /\ At(line, 2) = "."
      [] pattern = "^Part\\s+\\d+"    -> WordNumber("Part", line, ignorecase)
      [] pattern = "^PART\\s+\\d+"    -> WordNumber("PART", line, ignorecase)
      [] pattern = "^\\*\\s*\\*\\s*\\*" ->
            \E second \in {SkipSpace(line, 2)} :
                /\ At(line, 1) = "*"
                /\ At(line, second) = "*"
                /\ At(line, SkipSpace(line, second + 1)) = "*"
      [] pattern = "^-{3,}"           -> \A i \in 1..3 : At(line, i) = "-"
      [] pattern = "^#{1,3}\\s"       ->
            \E k \in 1..3 : (\A i \in 1..k : At(line, i) = "#") /\ At(line, k + 1) \in Space

\* The line is a chapter header: one of the patterns matches it.
IsHeader(line) ==
    \E p \in 1..Len(chapter_patterns) : Match(chapter_patterns[p], line, TRUE)

\* sum(len(line) + 1 for line in lines[:line_number]); line_number counts
\* from 0.
_get_position_at_line(text, line_number) ==
    LET Lengths(lines) ==
            SumSeq([k \in 1..line_number |->
                Offset(text, lines[k][2] + 1) - Offset(text, lines[k][1]) + 1])
    IN  Lengths(Lines(text))

\* The end of the run of atoms of the set S that starts at s[i]: the first
\* position after it.
SkipRun(s, i, S) ==
    LET End(rest) == IF rest = {} THEN Len(s) + 1 ELSE Min(rest)
    IN  End({j \in i..Len(s) : s[j] \notin S})

\* One position further if s[i] is in S: an optional element.
SkipOne(s, i, S) ==
    IF At(s, i) \in S THEN i + 1 ELSE i

\* re.sub(r'^(Chapter|CHAPTER|Part|PART)\s*\d*:?\s*', '', line, flags=re.IGNORECASE)
DropPrefix(line) ==
    IF At(line, 1) \in HeadingWords
    THEN SubSeq(line, SkipSpace(line, SkipOne(line, SkipOne(line, SkipSpace(line, 2),
                                                            DigitAtoms), {":"})), Len(line))
    ELSE line

\* re.sub(r'^\d+\.?\s*', '', title)
DropNumber(title) ==
    IF At(title, 1) \in DigitAtoms
    THEN SubSeq(title, SkipSpace(title, SkipOne(title, 2, {"."})), Len(title))
    ELSE title

\* re.sub(r'^[*-]+\s*', '', title) for S = {"*", "-"}, re.sub(r'^#+\s*', '',
\* title) for S = {"#"}
DropMarks(title, S) ==
    IF At(title, 1) \in S
    THEN SubSeq(title, SkipSpace(title, SkipRun(title, 1, S)), Len(title))
    ELSE title

\* The title of a header line, None if nothing is left of it.
_extract_chapter_title(line) ==
    LET Optional(title) == IF title # <<>> THEN Some(title) ELSE None
    IN  Optional(Strip(DropMarks(DropMarks(DropNumber(DropPrefix(line)), {"*", "-"}),
                                 {"#"})))

\* line_index counts from 0.
_calculate_confidence(line, line_index, text, all_lines) ==
    LET n      == Len(all_lines)
        marker == IF \/ Match("^Chapter\\s+\\d+", line, FALSE)
                     \/ Match("^CHAPTER\\s+\\d+", line, FALSE)
                  THEN 400 ELSE 0
        before == IF line_index > 0 /\ LineStripped(text, all_lines, line_index) = <<>>
                  THEN 100 ELSE 0
        after  == IF line_index < n - 1 /\ LineStripped(text, all_lines, line_index + 2) = <<>>
                  THEN 100 ELSE 0
    IN  Pts(MinOf(500 + marker + before + after, 1000))

ChapterBoundary(chapter_number, start_position, end_position, title, confidence) ==
    [chapter_number |-> chapter_number, start_position |-> start_position,
     end_position |-> end_position, title |-> title, confidence |-> confidence]

\* end_position with the update for the next chapter left out.
EndOfManuscript(manuscript, headers, k) ==
    TextLen(manuscript)

\* end_position of the k-th boundary: len(manuscript) when it is made,
\* updated to the position of the next header line when that is found.
EndPosition(manuscript, headers, k) ==
    IF k < Len(headers)
    THEN _get_position_at_line(manuscript, headers[k+1] - 1)
    ELSE TextLen(manuscript)

\* The loop of detect_chapters: one boundary for every header line, which
\* ends where the next begins and the last at the end of the manuscript.
DetectedHeaders(manuscript) ==
    LET Boundary(lines, k, i, line, end_position) ==
            ChapterBoundary(k,
                            _get_position_at_line(manuscript, i),
                            end_position,
                            _extract_chapter_title(line),
                            _calculate_confidence(line, i, manuscript, lines))
        Boundaries(lines, headers, n) ==
            [k \in 1..n |->
                Boundary(lines, k, headers[k] - 1,
                         LineStripped(manuscript, lines, headers[k]),
                         EndPosition(manuscript, headers, k))]
        Headers(lines, headers) ==
            Boundaries(lines, headers, Len(headers))
        Detected(lines) ==
            Headers(lines, SortSet({i \in 1..Len(lines) :
                IsHeader(LineStripped(manuscript, lines, i))}))
    IN  Detected(Lines(manuscript))

\* detect_chapters without "if not chapters".
detect_without_fallback(manuscript) ==
    DetectedHeaders(manuscript)

\* The loop, and the whole manuscript as one chapter if it found nothing.
detect_chapters(manuscript) ==
    LET Fallback(found) ==
            IF found = <<>>
            THEN <<ChapterBoundary(1, 0, TextLen(manuscript), None, Pts(1000))>>
            ELSE found
    IN  Fallback(DetectedHeaders(manuscript))

-----------------------------------------------------------------------------
(* The report of ChapterRewriter.                                          *)

\* The eight dimensions of QualityMetrics, in the order of the source.
Dimensions ==
    << "readability_score", "story_structure_score", "character_consistency_score",
       "pacing_score", "dialogue_effectiveness_score", "narrative_flow_score",
       "tension_score", "prose_quality_score" >>

improvement_labels ==
    << "Improved readability", "Enhanced story structure", "Better character consistency",
       "Improved pacing", "Enhanced dialogue effectiveness", "Smoother narrative flow",
       "Increased tension and engagement", "Better prose quality" >>

_identify_improvements(original, new) ==
    LET Labels(up) == [k \in 1..Len(up) |-> improvement_labels[up[k]]]
    IN  Labels(SortSet({k \in 1..Len(Dimensions) :
            new[Dimensions[k]] > original[Dimensions[k]]}))

\* A message of the report with the values that fill its {} places.
Message(text, args) ==
    [text |-> text, args |-> args]

plot_keywords ==
    <<"discovered", "revealed", "decided", "realized", "remembered">>

\* word in s, for a plot keyword
HasPlotWord(s, word) ==
    \E i \in 1..Len(s) : <<word, s[i]>> \in PlotIn

\* _identify_preserved_elements in a process with this hash seed.
_identify_preserved_elements(original, rewritten, controls, seed) ==
    LET Names(preserved_names) ==
            IF controls # None /\ controls[1].preserve_character_names
               /\ preserved_names # <<>>
            THEN <<Message("Character names: {}",
                           SubSeq(preserved_names, 1, MinOf(5, Len(preserved_names))))>>
            ELSE <<>>
        Dialogue(preserved_dialogue) ==
            IF preserved_dialogue # <<>>
            THEN <<Message("{} specific dialogue segments", <<Len(preserved_dialogue)>>)>>
            ELSE <<>>
        Plot(preserved_plot) ==
            IF preserved_plot # <<>> THEN <<Message("Key plot developments", <<>>)>>
            ELSE <<>>
        Listed(names, dialogue, plot) ==
            names \o dialogue \o plot
    IN  Listed(Names(IterationOrder(NamesOf(original) \cap NamesOf(rewritten), seed)),
               Dialogue(IF controls # None
                        THEN SelectSeq(controls[1].preserve_dialogue,
                                       LAMBDA d : Contains(rewritten, d))
                        ELSE <<>>),
               Plot(SelectSeq(plot_keywords,
                        LAMBDA w : HasPlotWord(original, w) /\ HasPlotWord(rewritten, w))))

_calculate_improvements(original, final) ==
    [readability            |-> final.readability_score - original.readability_score,
     story_structure        |-> final.story_structure_score - original.story_structure_score,
     character_consistency  |-> final.character_consistency_score
                                    - original.character_consistency_score,
     pacing                 |-> final.pacing_score - original.pacing_score,
     dialogue_effectiveness |-> final.dialogue_effectiveness_score
                                    - original.dialogue_effectiveness_score,
     narrative_flow         |-> final.narrative_flow_score - original.narrative_flow_score,
     tension                |-> final.tension_score - original.tension_score,
     prose_quality          |-> final.prose_quality_score - original.prose_quality_score,
     overall                |-> final.overall_score - original.overall_score]

\* The changes the source reads off the issues of one list: for every issue,
\* in order, the change of each fragment that occurs in its message.
MappedChanges(issues, fragments) ==
    Flatten([k \in 1..Len(issues) |->
        Flatten([f \in 1..Len(fragments) |->
            IF issues[k].text \in fragments[f][1]
            THEN <<Message(fragments[f][2], <<>>)>> ELSE <<>>])])

_identify_changes_made(original, rewritten, problems) ==
    LET Changes(original_words, rewritten_words, original_paragraphs,
                rewritten_paragraphs, original_dialogue, rewritten_dialogue) ==
            (IF 10 * Abs(original_words - rewritten_words) > original_words
             THEN IF rewritten_words > original_words
                  THEN <<Message("Expanded content (+{} words)",
                                 <<rewritten_words - original_words>>)>>
                  ELSE <<Message("Condensed content (-{} words)",
                                 <<original_words - rewritten_words>>)>>
             ELSE <<>>)
            \o (IF rewritten_paragraphs # original_paragraphs
                THEN <<Message("Restructured paragraphs ({} -> {})",
                               <<original_paragraphs, rewritten_paragraphs>>)>>
                ELSE <<>>)
            \o (IF rewritten_dialogue # original_dialogue
                THEN <<Message("Modified dialogue ({} -> {} segments)",
                               <<original_dialogue, rewritten_dialogue>>)>>
                ELSE <<>>)
            \o MappedChanges(problems.prose_issues,
                   << <<{"Excessive use of adverbs ({} found) - consider stronger verbs"},
                        "Reduced adverb usage for stronger prose">>,
                      <<{"Overuse of weak verbs - consider more specific alternatives"},
                        "Replaced weak verbs with stronger alternatives">> >>)
            \o MappedChanges(problems.pacing_issues,
                   << <<{"Lack of sentence length variety - monotonous pacing"},
                        "Improved sentence length variety for better pacing">> >>)
            \o MappedChanges(problems.dialogue_issues,
                   << <<{"Overuse of 'said' - dialogue tags lack variety"},
                        "Varied dialogue tags for more engaging conversations">> >>)
    IN  Changes(WordCount(original, 1, Len(original)),
                WordCount(rewritten, 1, Len(rewritten)),
                Len(ParaPieces(original)),
                Len(ParaPieces(rewritten)),
                Len(Dialogues(original)),
                Len(Dialogues(rewritten)))

RewriteReport(original_metrics, final_metrics, changes_made, improvements, iterations_required, preserved_elements) ==
    [original_metrics |-> original_metrics, final_metrics |-> final_metrics,
     changes_made |-> changes_made, improvements |-> improvements,
     iterations_required |-> iterations_required, preserved_elements |-> preserved_elements]

-----------------------------------------------------------------------------
(* The calls of rewrite_chapter that are explored.                         *)

\* The largest max_iterations.
MaxIterations ==
    2

\* The largest number of parts a manuscript is put together from.
MaxParts ==
    1

\* The largest chapter_number asked for.
MaxChapterNumber ==
    2

\* A chapter whose first LIGHT rewrite scores above 0.9.  It is rewritten
\* without preservation controls only.
RichChapter ==
    <<"\"", "Go", "\"", "\n", "said", " ", "Ann", ".", " ", "\"", "I", "'", "m", " ",
      "not", " ", "so", " ", "sure", " ", "of", " ", "it", "\"", " ", "said", " ", "Bob",
      ".", " ", "Ann", " ", "said", " ", "no", ".", " ", "Fear", ".", " ", "Panic", ".",
      " ", "Then", " ", "danger", ".", "\n", "\n", "Meanwhile", " ", "Bob", " ", "ran",
      ".", " ", "Rush", ".", " ", "Then", " ", "crisis", ".", " ", "Threat", ".", "\n",
      "\n", "However", " ", "Ann", " ", "went", ".", " ", "Urgent", ".", " ", "Then", " ",
      "stop", ".", "\n", "\n", "Thus", " ", "he", " ", "said", " ", "it", ".", " ", "Halt",
      ".", " ", "Wait", ".">>

\* A chapter of three dialogues, each with the tag "said".  It is rewritten
\* without preservation controls only.
SaidChapter ==
    <<"\"", "Hi", "\"", " ", "said", " ", "Ann", ".", " ", "\"", "Go", "\"", " ", "said",
      " ", "Bob", ".", " ", "\"", "No", "\"", " ", "said", " ", "Ann", ".">>

\* The pieces of text the manuscripts are put together from: a chapter that
\* is accepted twice, one whose rewrite cannot be assessed, one that cannot
\* be assessed itself, two chapters under their headers, the second with
\* the lower score, and chapters that lose one and two capitalised adverbs
\* and have " he " in them.  None ends with a word, so that putting two
\* together joins no words.
Parts ==
    { <<"\"", "Hi", "\"", " ", "quickly", "\n", "\n", "said", " ">>,
      <<"quickly", " ", ".">>,
      <<".">>,
      <<"#", " ", "Hi", "\n", "Ann", " ", "went", ".", "\n", "\n",
        "Chapter", " ", "1", "\n", "He", " ", "quietly", "\n">>,
      <<"Suddenly", " ", "Suddenly", " ", "he", " ", "ran", ".">>,
      <<"Suddenly", " ", "Suddenly", " ", "he", " ", "ran", ".", " ",
        "Quietly", " ", "Quietly", " ", "he", " ", "went", ".">> }

Manuscripts ==
    {RichChapter, SaidChapter}
    \cup UNION {{Flatten(s) : s \in [1..n -> Parts]} : n \in 0..MaxParts}

\* No chapter_number, or one of -1, 0 and the numbers up to the largest.
ChapterNumbers ==
    {None} \cup {Some(n) : n \in -1..MaxChapterNumber}

RewriteIntensity ==
    {"LIGHT", "MODERATE", "COMPREHENSIVE"}

Controls ==
    { None,
      Some(PreservationControls(<<>>, TRUE)),
      Some(PreservationControls(<< <<"quickly", "\n", "\n", "said">> >>, TRUE)),
      Some(PreservationControls(<< <<"he", " ", "ran">> >>, TRUE)) }

-----------------------------------------------------------------------------
(* rewrite_chapter as a state machine.                                     *)

VARIABLES
    manuscript, chapter_number, intensity, preservation_controls, max_iterations,
    hash_seed,          \* the hash seed of the process that runs the call
    pc,                 \* where the call is
    chapters, chapter_scores, target_chapter,
    original_text, original_metrics, problems,
    current_text, iterations, improvements_made,
    rewritten_text, new_metrics,
    result,             \* what the call returned or raised
    assessments,        \* how many times assess_quality has been called
    candidates          \* the candidates assessed so far and what became of them

\* The arguments of the call and the process it runs in: what no step changes.
inputs ==
    <<manuscript, chapter_number, intensity, preservation_controls, max_iterations, hash_seed>>

vars ==
    <<manuscript, chapter_number, intensity, preservation_controls, max_iterations,
      hash_seed, pc,
      chapters, chapter_scores, target_chapter, original_text, original_metrics, problems,
      current_text, iterations, improvements_made, rewritten_text, new_metrics, result,
      assessments, candidates>>

Init ==
    /\ manuscript \in Manuscripts
    /\ chapter_number \in ChapterNumbers
    /\ intensity \in RewriteIntensity
    /\ preservation_controls \in Controls
    /\ manuscript \in {RichChapter, SaidChapter} => preservation_controls = None
    /\ max_iterations \in 0..MaxIterations
    /\ hash_seed \in HashSeeds
    /\ pc = "detect"
    /\ chapters = <<>>
    /\ chapter_scores = <<>>
    /\ target_chapter = None
    /\ original_text = None
    /\ original_metrics = None
    /\ problems = None
    /\ current_text = None
    /\ iterations = 0
    /\ improvements_made = <<>>
    /\ rewritten_text = None
    /\ new_metrics = None
    /\ result = None
    /\ assessments = 0
    /\ candidates = <<>>

\* What a call that raised left behind.
Raised(exception, message) ==
    [raised |-> exception, message |-> message]

\* What a call that returned left behind.
Returned(text, report) ==
    [text |-> text, report |-> report]

\* manuscript[chapter.start_position:chapter.end_position]
ChapterText(chapter) ==
    Slice(manuscript, chapter.start_position, chapter.end_position)

\* Step 1: chapters = self.detector.detect_chapters(manuscript), and the
\* ValueError of an empty list.
DetectChapters ==
    /\ pc = "detect"
    /\ chapters' = detect_chapters(manuscript)
    /\ IF chapters' = <<>>
       THEN /\ pc' = "raised"
            /\ result' = Raised("ValueError", Message("No chapters detected in manuscript", <<>>))
       ELSE /\ pc' = "select"
            /\ result' = result
    /\ UNCHANGED <<inputs, chapter_scores, target_chapter, original_text, original_metrics,
                   problems, current_text, iterations, improvements_made, rewritten_text,
                   new_metrics, assessments, candidates>>

\* min(chapter_scores, key=lambda x: x[1]): the position of the first of the
\* lowest scores.
MinByScore(scores) ==
    Min({k \in DOMAIN scores : \A j \in DOMAIN scores : scores[k] <= scores[j]})

\* Step 2 without a chapter_number: every chapter is assessed in order and
\* min() keeps the first of the chapters with the lowest overall score.  The
\* assessment of a chapter can raise ZeroDivisionError, which ends the call.
AutoSelect ==
    /\ pc = "select"
    /\ chapter_number = None
    /\ \E raising \in {{k \in DOMAIN chapters : ReadabilityRaises(ChapterText(chapters[k]))}} :
       \E done \in {IF raising = {} THEN Len(chapters) ELSE Min(raising) - 1} :
       \E scores \in {[k \in 1..done |->
                          assess_quality(ChapterText(chapters[k])).overall_score]} :
           /\ chapter_scores' = scores
           /\ IF raising = {}
              THEN /\ target_chapter' = chapters[MinByScore(scores)]
                   /\ assessments' = assessments + done
                   /\ pc' = "baseline"
                   /\ result' = result
              ELSE /\ target_chapter' = target_chapter
                   /\ assessments' = assessments + done + 1
                   /\ pc' = "raised"
                   /\ result' = Raised("ZeroDivisionError", Message("division by zero", <<>>))
    /\ UNCHANGED <<inputs, chapters, original_text, original_metrics, problems, current_text,
                   iterations, improvements_made, rewritten_text, new_metrics, candidates>>

\* The list of the chapters with >= in the place of ==.
ChaptersFrom(detected, number) ==
    SelectSeq(detected, LAMBDA c : c.chapter_number >= number)

\* [c for c in chapters if c.chapter_number == chapter_number]
MatchingChapters(detected, number) ==
    SelectSeq(detected, LAMBDA c : c.chapter_number = number)

\* Step 2 with a chapter_number: the first boundary with that number, or
\* ValueError(f"Chapter {chapter_number} not found").
ExplicitSelect ==
    /\ pc = "select"
    /\ chapter_number # None
    /\ LET target_chapters == MatchingChapters(chapters, chapter_number[1])
       IN  IF target_chapters = <<>>
           THEN /\ pc' = "raised"
                /\ result' = Raised("ValueError", Message("Chapter {} not found", chapter_number))
                /\ target_chapter' = target_chapter
           ELSE /\ pc' = "baseline"
                /\ result' = result
                /\ target_chapter' = target_chapters[1]
    /\ UNCHANGED <<inputs, chapters, chapter_scores, original_text, original_metrics,
                   problems, current_text, iterations, improvements_made, rewritten_text,
                   new_metrics, assessments, candidates>>

\* Steps 3 to 5 and the start of step 6: the text of the chapter, its
\* baseline assessment (which can raise ZeroDivisionError), its problems,
\* and the loop variables.
Baseline ==
    /\ pc = "baseline"
    /\ \E text \in {ChapterText(target_chapter)} :
           /\ original_text' = text
           /\ assessments' = assessments + 1
           /\ IF ReadabilityRaises(text)
              THEN /\ pc' = "raised"
                   /\ result' = Raised("ZeroDivisionError", Message("division by zero", <<>>))
                   /\ UNCHANGED <<original_metrics, problems, current_text>>
              ELSE /\ pc' = "loop"
                   /\ result' = result
                   /\ original_metrics' = assess_quality(text)
                   /\ problems' = analyze_problems(text)
                   /\ current_text' = text
    /\ iterations' = 0
    /\ improvements_made' = <<>>
    /\ UNCHANGED <<inputs, chapters, chapter_scores, target_chapter, rewritten_text,
                   new_metrics, candidates>>

\* while iterations < max_iterations: the next attempt starts, and
\* _generate_rewrite proposes a candidate.
GenerateRewrite ==
    /\ pc = "loop"
    /\ iterations < max_iterations
    /\ iterations' = iterations + 1
    /\ rewritten_text' \in
           _generate_rewrite(current_text, problems, intensity, preservation_controls,
                             hash_seed)
    /\ pc' = "assess"
    /\ UNCHANGED <<inputs, chapters, chapter_scores, target_chapter, original_text,
                   original_metrics, problems, current_text, improvements_made, new_metrics,
                   result, assessments, candidates>>

\* while iterations < max_iterations fails: on to the report.
LoopEnd ==
    /\ pc = "loop"
    /\ ~(iterations < max_iterations)
    /\ pc' = "report"
    /\ UNCHANGED <<inputs, chapters, chapter_scores, target_chapter, original_text,
                   original_metrics, problems, current_text, iterations, improvements_made,
                   rewritten_text, new_metrics, result, assessments, candidates>>

\* new_metrics = self.assessor.assess_quality(rewritten_text), which can
\* raise ZeroDivisionError.
AssessRewrite ==
    /\ pc = "assess"
    /\ assessments' = assessments + 1
    /\ IF ReadabilityRaises(rewritten_text)
       THEN /\ pc' = "raised"
            /\ result' = Raised("ZeroDivisionError", Message("division by zero", <<>>))
            /\ new_metrics' = new_metrics
       ELSE /\ pc' = "decide"
            /\ result' = result
            /\ new_metrics' = assess_quality(rewritten_text)
    /\ UNCHANGED <<inputs, chapters, chapter_scores, target_chapter, original_text,
                   original_metrics, problems, current_text, iterations, improvements_made,
                   rewritten_text, candidates>>

\* One entry of candidates.
Candidate(text, metrics, accepted) ==
    [text |-> text, metrics |-> metrics, accepted |-> accepted]

\* The test of the candidate against the text it was made from, in the place
\* of the original text.
BetterThanCurrent ==
    is_better_than(new_metrics, assess_quality(current_text))

\* new_metrics.is_better_than(original_metrics)
BetterThanOriginal ==
    is_better_than(new_metrics, original_metrics)

\* if new_metrics.is_better_than(original_metrics): the candidate becomes
\* the current text.  The loop is left when it scores above 0.9 (before the
\* problems are analysed again) or when the new analysis has a severity
\* below 0.2.
AcceptRewrite ==
    /\ pc = "decide"
    /\ BetterThanOriginal
    /\ current_text' = rewritten_text
    /\ improvements_made' =
           improvements_made \o _identify_improvements(original_metrics, new_metrics)
    /\ candidates' = Append(candidates, Candidate(rewritten_text, new_metrics, TRUE))
    /\ IF new_metrics.overall_score > Pts(900)
       THEN /\ problems' = problems
            /\ pc' = "report"
       ELSE /\ problems' = analyze_problems(rewritten_text)
            /\ pc' = IF problems'.severity_score < Pts(200) THEN "report" ELSE "loop"
    /\ UNCHANGED <<inputs, chapters, chapter_scores, target_chapter, original_text,
                   original_metrics, iterations, rewritten_text, new_metrics, result,
                   assessments>>

\* The else branch with the candidate kept as the current text.
RejectAndKeep ==
    /\ pc = "decide"
    /\ ~BetterThanOriginal
    /\ current_text' = rewritten_text
    /\ candidates' = Append(candidates, Candidate(rewritten_text, new_metrics, FALSE))
    /\ pc' = IF iterations < max_iterations THEN "loop" ELSE "report"
    /\ UNCHANGED <<inputs, chapters, chapter_scores, target_chapter, original_text,
                   original_metrics, problems, iterations, improvements_made,
                   rewritten_text, new_metrics, result, assessments>>

\* else: the candidate is dropped; the loop goes on if attempts are left.
RejectRewrite ==
    /\ pc = "decide"
    /\ ~BetterThanOriginal
    /\ candidates' = Append(candidates, Candidate(rewritten_text, new_metrics, FALSE))
    /\ pc' = IF iterations < max_iterations THEN "loop" ELSE "report"
    /\ UNCHANGED <<inputs, chapters, chapter_scores, target_chapter, original_text,
                   original_metrics, problems, current_text, iterations, improvements_made,
                   rewritten_text, new_metrics, result, assessments>>

\* Step 7: the report on the current text, and the return.
Report ==
    /\ pc = "report"
    /\ assessments' = assessments + 1
    /\ IF ReadabilityRaises(current_text)
       THEN /\ pc' = "raised"
            /\ result' = Raised("ZeroDivisionError", Message("division by zero", <<>>))
       ELSE /\ pc' = "returned"
            /\ \E final_metrics \in {assess_quality(current_text)} :
               \E preserved_elements \in
                   {_identify_preserved_elements(original_text, current_text,
                                                 preservation_controls, hash_seed)} :
                   result' = Returned(current_text,
                       RewriteReport(original_metrics,
                                     final_metrics,
                                     _identify_changes_made(original_text, current_text, problems),
                                     _calculate_improvements(original_metrics, final_metrics),
                                     iterations,
                                     preserved_elements))
    /\ UNCHANGED <<inputs, chapters, chapter_scores, target_chapter, original_text,
                   original_metrics, problems, current_text, iterations, improvements_made,
                   rewritten_text, new_metrics, candidates>>

Next ==
    \/ DetectChapters
    \/ AutoSelect
    \/ ExplicitSelect
    \/ Baseline
    \/ GenerateRewrite
    \/ LoopEnd
    \/ AssessRewrite
    \/ AcceptRewrite
    \/ RejectRewrite
    \/ Report

Spec ==
    Init /\ [][Next]_vars

-----------------------------------------------------------------------------
(* is_better_than on its own: a call of it on two QualityMetrics.          *)

\* The QualityMetrics compared: every score is one of two values.
ComparedMetrics ==
    [ {Dimensions[k] : k \in 1..Len(Dimensions)} \cup {"overall_score"}
        -> {Pts(500), Pts(600)} ]

\* What the first is compared to: all scores low, all high, and these with
\* the pacing score the other way.
ReferenceMetrics ==
    { m \in ComparedMetrics :
        \A f \in DOMAIN m \ {"pacing_score"} : m[f] = m.overall_score }

InitCompare ==
    /\ new_metrics \in ComparedMetrics
    /\ original_metrics \in ReferenceMetrics
    /\ pc = "compare"
    /\ manuscript = <<>>
    /\ chapter_number = None
    /\ intensity = "LIGHT"
    /\ preservation_controls = None
    /\ max_iterations = 0
    /\ hash_seed = 0
    /\ chapters = <<>>
    /\ chapter_scores = <<>>
    /\ target_chapter = None
    /\ original_text = None
    /\ problems = None
    /\ current_text = None
    /\ iterations = 0
    /\ improvements_made = <<>>
    /\ rewritten_text = None
    /\ result = None
    /\ assessments = 0
    /\ candidates = <<>>

\* new_metrics.is_better_than(original_metrics)
Compare ==
    /\ pc = "compare"
    /\ result' = is_better_than(new_metrics, original_metrics)
    /\ pc' = "compared"
    /\ UNCHANGED <<inputs, chapters, chapter_scores, target_chapter, original_text,
                   original_metrics, problems, current_text, iterations, improvements_made,
                   rewritten_text, new_metrics, assessments, candidates>>

SpecCompare ==
    InitCompare /\ [][Compare]_vars

-----------------------------------------------------------------------------
(* Calls on texts put together from short pieces.                          *)

\* The largest number of pieces a text is put together from.
MaxTextParts ==
    3

\* The pieces: header lines of three kinds (the third without a line feed
\* after it), a line feed, a blank, a sentence, a full stop, a dialogue with
\* its tag and an adverb.  None ends with a word.
TextParts ==
    { <<"Chapter", " ", "1", "\n">>,
      <<"#", " ", "Hi", "\n">>,
      <<"-", "-", "-">>,
      <<"\n">>,
      <<" ">>,
      <<"Go", ".">>,
      <<".">>,
      <<"\"", "I", "'", "m", " ", "not", " ", "so", " ", "sure", "\"", " ", "said", " ",
        "Ann", ".", " ">>,
      <<"quickly", " ">> }

Texts ==
    UNION {{Flatten(s) : s \in [1..n -> TextParts]} : n \in 0..MaxTextParts}

\* A call at the place start with one of the texts for its manuscript.
InitText(start) ==
    /\ manuscript \in Texts
    /\ pc = start
    /\ chapter_number = None
    /\ intensity = "LIGHT"
    /\ preservation_controls = None
    /\ max_iterations = 0
    /\ hash_seed = 0
    /\ chapters = <<>>
    /\ chapter_scores = <<>>
    /\ target_chapter = None
    /\ original_text = None
    /\ original_metrics = None
    /\ problems = None
    /\ current_text = None
    /\ iterations = 0
    /\ improvements_made = <<>>
    /\ rewritten_text = None
    /\ new_metrics = None
    /\ result = None
    /\ assessments = 0
    /\ candidates = <<>>

\* Step 1 of rewrite_chapter on every text.
SpecDetect ==
    InitText("detect") /\ [][DetectChapters]_vars

\* A call of assess_quality on a text, which can raise ZeroDivisionError.
CallAssess ==
    /\ pc = "call"
    /\ assessments' = assessments + 1
    /\ IF ReadabilityRaises(manuscript)
       THEN /\ pc' = "raised"
            /\ result' = Raised("ZeroDivisionError", Message("division by zero", <<>>))
            /\ new_metrics' = new_metrics
       ELSE /\ pc' = "assessed"
            /\ result' = result
            /\ new_metrics' = assess_quality(manuscript)
    /\ UNCHANGED <<inputs, chapters, chapter_scores, target_chapter, original_text,
                   original_metrics, problems, current_text, iterations, improvements_made,
                   rewritten_text, candidates>>

\* A call of analyze_problems on a text.
CallAnalyze ==
    /\ pc = "call"
    /\ problems' = analyze_problems(manuscript)
    /\ pc' = "analyzed"
    /\ UNCHANGED <<inputs, chapters, chapter_scores, target_chapter, original_text,
                   original_metrics, current_text, iterations, improvements_made,
                   rewritten_text, new_metrics, result, assessments, candidates>>

\* The assessor and the analyzer on every text.
SpecAssess ==
    InitText("call") /\ [][CallAssess \/ CallAnalyze]_vars

-----------------------------------------------------------------------------
(* The claims.                                                             *)

\* C1: in the report of every call that returns, no dimension score and not
\* the overall score of final_metrics is below that of original_metrics, and
\* every entry of improvements is >= 0.
FinalNeverWorse ==
    pc = "returned" =>
        LET report == result.report
        IN  /\ \A k \in 1..Len(Dimensions) :
                   report.final_metrics[Dimensions[k]] >= report.original_metrics[Dimensions[k]]
            /\ report.final_metrics.overall_score >= report.original_metrics.overall_score
            /\ DOMAIN report.improvements =
                   {"readability", "story_structure", "character_consistency", "pacing",
                    "dialogue_effectiveness", "narrative_flow", "tension", "prose_quality",
                    "overall"}
            /\ \A key \in DOMAIN report.improvements : report.improvements[key] >= 0

\* A call returns a rewritten chapter whose overall score is higher.
ReturnedImproved ==
    /\ pc = "returned"
    /\ result.text # original_text
    /\ result.report.improvements.overall > 0
    /\ result.report.iterations_required >= 1

\* C2: A.is_better_than(B) is true exactly when each of the eight dimension
\* scores of A is >= that of B and the overall score of A is above that of
\* B: it is false when one dimension is lower and when A equals B.
BetterIffDominates ==
    pc = "compared" =>
        /\ result =
               ( /\ \A k \in 1..Len(Dimensions) :
                        new_metrics[Dimensions[k]] >= original_metrics[Dimensions[k]]
                 /\ new_metrics.overall_score > original_metrics.overall_score )
        /\ (\E k \in 1..Len(Dimensions) :
                new_metrics[Dimensions[k]] < original_metrics[Dimensions[k]]) => ~result
        /\ new_metrics = original_metrics => ~result

\* Metrics are found better that are higher overall and equal in a dimension.
ComparedBetter ==
    /\ pc = "compared"
    /\ result
    /\ new_metrics.overall_score > original_metrics.overall_score
    /\ new_metrics.pacing_score = original_metrics.pacing_score

\* C3: in every iteration the candidate becomes the current text exactly
\* when its metrics dominate the metrics of the original chapter text, and
\* original_metrics never changes once the loop has begun.
AcceptedIffDominatesOriginal ==
    [][ /\ pc = "decide" =>
            LET baseline  == assess_quality(original_text)
                dominates ==
                    /\ \A k \in 1..Len(Dimensions) :
                           new_metrics[Dimensions[k]] >= baseline[Dimensions[k]]
                    /\ new_metrics.overall_score > baseline.overall_score
            IN  /\ current_text' = IF dominates THEN rewritten_text ELSE current_text
                /\ Len(candidates') = Len(candidates) + 1
                /\ candidates'[Len(candidates')].text = rewritten_text
                /\ candidates'[Len(candidates')].accepted = dominates
        /\ pc \in {"loop", "assess", "decide", "report"} =>
               original_metrics' = original_metrics ]_vars

\* A second candidate has been accepted that does not dominate the first.
AcceptedOverOriginalOnly ==
    /\ Len(candidates) >= 2
    /\ candidates[1].accepted
    /\ candidates[2].accepted
    /\ current_text = candidates[2].text
    /\ ~is_better_than(candidates[2].metrics, candidates[1].metrics)

\* C4: the loop ends and the report is assembled after at most
\* max_iterations attempts: no call fails once an attempt has begun, and
\* iterations_required is the number of attempts made, at most
\* max_iterations and at least 1 when max_iterations is.
LoopReachesReport ==
    /\ iterations <= max_iterations
    /\ iterations >= 1 => pc # "raised"
    /\ pc \in {"report", "returned"} =>
           /\ iterations = Len(candidates)
           /\ max_iterations >= 1 => iterations >= 1
    /\ pc = "returned" => result.report.iterations_required = iterations

\* C5: a call that has begun the loop and has ended with no candidate
\* accepted has made max_iterations attempts and has returned the original
\* text, with final_metrics equal to original_metrics and iterations_required
\* equal to max_iterations.
NoAcceptanceReturnsOriginal ==
    ( /\ pc \in {"returned", "raised"}
      /\ pc = "raised" => iterations >= 1
      /\ \A k \in 1..Len(candidates) : ~candidates[k].accepted )
    => /\ pc = "returned"
       /\ Len(candidates) = max_iterations
       /\ result.text = original_text
       /\ result.report.final_metrics = result.report.original_metrics
       /\ result.report.iterations_required = max_iterations

\* C6: the loop is left with attempts to spare only in an iteration whose
\* candidate was accepted and scores above 0.9 overall or has problems of a
\* severity below 0.2; and after such a candidate the loop does not go on.
EarlyExitOnlyOnAccepted ==
    LET last == candidates[Len(candidates)]
        ends ==
            \/ last.metrics.overall_score > Pts(900)
            \/ analyze_problems(last.text).severity_score < Pts(200)
    IN  /\ (pc \in {"report", "returned", "raised"} /\ 1 <= iterations
                /\ iterations < max_iterations) =>
               /\ Len(candidates) = iterations
               /\ last.accepted
               /\ ends
        /\ (pc = "loop" /\ candidates # <<>> /\ last.accepted) => ~ends

\* C7: when the loop has ended, the overall score of the text that is kept
\* and returned is >= that of the original chapter and of every candidate
\* that was accepted.
KeptTextIsBest ==
    pc \in {"report", "returned"} =>
        LET kept == assess_quality(current_text).overall_score
        IN  /\ kept >= original_metrics.overall_score
            /\ \A k \in 1..Len(candidates) :
                   candidates[k].accepted => kept >= candidates[k].metrics.overall_score
            /\ pc = "returned" => result.text = current_text

\* C8: after every iteration, and when the report is assembled, problems is
\* the analysis of the current text.
ProblemsOfCurrentText ==
    pc \in {"loop", "report", "returned"} => problems = analyze_problems(current_text)

\* C9: once the chapter has been looked for, a chapter_number that no
\* detected chapter has made the call fail with "Chapter N not found", with
\* nothing assessed and nothing rewritten; one that a chapter has selects the
\* chapter at that position of the list.
UnknownChapterNotFound ==
    (chapter_number # None /\ pc \notin {"detect", "select"}) =>
        LET n == chapter_number[1]
        IN  IF \A k \in 1..Len(chapters) : chapters[k].chapter_number # n
            THEN /\ pc = "raised"
                 /\ result = Raised("ValueError", Message("Chapter {} not found", <<n>>))
                 /\ assessments = 0
                 /\ iterations = 0
                 /\ candidates = <<>>
            ELSE /\ n \in 1..Len(chapters)
                 /\ target_chapter = chapters[n]
                 /\ pc \notin {"baseline"} => original_text = ChapterText(chapters[n])

\* A call for chapter 0 of a manuscript with two chapters has failed.
ChapterZeroNotFound ==
    /\ pc = "raised"
    /\ chapter_number = Some(0)
    /\ Len(chapters) = 2
    /\ result.raised = "ValueError"

\* C10: without a chapter_number, once the chapter has been chosen every
\* detected chapter has been assessed, no chapter has a lower overall score
\* than the chosen one, and the original_metrics of the report are its
\* assessment.
AutoSelectRewritesLowest ==
    (chapter_number = None /\ pc \notin {"detect", "select"}) =>
        /\ Len(chapter_scores) = Len(chapters)
        /\ \A k \in 1..Len(chapters) :
               chapter_scores[k] = assess_quality(ChapterText(chapters[k])).overall_score
        /\ \E k \in 1..Len(chapters) :
               /\ target_chapter = chapters[k]
               /\ \A j \in 1..Len(chapters) : chapter_scores[k] <= chapter_scores[j]
        /\ pc = "returned" =>
               result.report.original_metrics = assess_quality(ChapterText(target_chapter))

\* The lines of the text of which none is a header.
NoHeaderLine(text) ==
    \A i \in DOMAIN Lines(text) : ~IsHeader(LineStripped(text, Lines(text), i))

\* C11: once detect_chapters has been called, the list of chapters is not
\* empty and the call has not failed with "No chapters detected"; for a
\* manuscript with no header line the list is the one boundary with number
\* 1 that runs from 0 to len(manuscript), with confidence 1.0.
DetectionNeverEmpty ==
    pc # "detect" =>
        /\ chapters # <<>>
        /\ pc = "select"
        /\ result = None
        /\ NoHeaderLine(manuscript) =>
               chapters = <<ChapterBoundary(1, 0, TextLen(manuscript), None, Pts(1000))>>

\* A manuscript of two lines without a header has been given its one chapter.
WholeTextChapter ==
    /\ pc = "select"
    /\ Len(Lines(manuscript)) = 2
    /\ manuscript[1] = "Go"
    /\ NoHeaderLine(manuscript)
    /\ Len(chapters) = 1
    /\ chapters[1].end_position = TextLen(manuscript)

\* The indices of the lines of the text that are headers.
HeaderLines(text) ==
    {i \in DOMAIN Lines(text) : IsHeader(LineStripped(text, Lines(text), i))}

\* C12: the list detect_chapters returns has the chapter numbers 1, 2, ...
\* in order, one boundary for every header line when there is one, each
\* boundary ends where the next starts, and the last ends at
\* len(manuscript).
ChaptersInOrder ==
    pc # "detect" =>
        /\ \A k \in DOMAIN chapters : chapters[k].chapter_number = k
        /\ HeaderLines(manuscript) # {} => Len(chapters) = Cardinality(HeaderLines(manuscript))
        /\ \A k \in 1..(Len(chapters) - 1) :
               chapters[k].end_position = chapters[k+1].start_position
        /\ chapters[Len(chapters)].end_position = TextLen(manuscript)

\* The second of two lines "Chapter 1" has become chapter 2, which starts
\* where chapter 1 ends.
SecondChapterOne ==
    /\ pc = "select"
    /\ manuscript = <<"Chapter", " ", "1", "\n", "Chapter", " ", "1", "\n">>
    /\ Len(chapters) = 2
    /\ chapters[2].chapter_number = 2
    /\ chapters[1].end_position = 10
    /\ chapters[2].start_position = 10
    /\ chapters[2].end_position = 20

\* C13: every boundary detect_chapters returns has
\* 0 <= start_position < end_position <= len(manuscript).
BoundariesNotEmpty ==
    pc # "detect" =>
        \A k \in DOMAIN chapters :
            /\ 0 <= chapters[k].start_position
            /\ chapters[k].start_position < chapters[k].end_position
            /\ chapters[k].end_position <= TextLen(manuscript)

\* The text is empty or made of whitespace.
IsBlank(text) ==
    \A i \in DOMAIN text : text[i] \in Space

HeuristicsNeverRaise ==
    /\ pc # "raised"
    /\ result = None

\* C16: the eight dimension scores assess_quality returns lie in [0, 1], and
\* the overall score is their arithmetic mean.
ScoresInRangeWithMean ==
    pc = "assessed" =>
        /\ \A k \in DOMAIN Dimensions :
               0 <= new_metrics[Dimensions[k]] /\ new_metrics[Dimensions[k]] <= Pts(1000)
        /\ 8 * new_metrics.overall_score =
               SumSeq([k \in DOMAIN Dimensions |-> new_metrics[Dimensions[k]]])
        /\ 0 <= new_metrics.overall_score /\ new_metrics.overall_score <= Pts(1000)

\* A text of a sentence of one word and one of six has been assessed: its
\* readability is 1.0, and its scores differ.
VariedTextAssessed ==
    /\ pc = "assessed"
    /\ SentenceLengths(manuscript) = <<1, 6>>
    /\ new_metrics.readability_score = Pts(1000)
    /\ new_metrics.overall_score # new_metrics.readability_score
    /\ new_metrics.overall_score # new_metrics.pacing_score

\* C17: the text rewrite_chapter returns contains every string of
\* preservation_controls.preserve_dialogue that the original chapter text
\* contains, at every intensity and after every number of iterations and of
\* accepted candidates, with the preservation of character names on.
PreservedDialogueReturned ==
    (pc = "returned" /\ preservation_controls # None) =>
        \A k \in DOMAIN preservation_controls[1].preserve_dialogue :
            \E d \in {preservation_controls[1].preserve_dialogue[k]} :
                Contains(original_text, d) => Contains(result.text, d)

\* The dialogue tags of the alternatives in a text, each after a space.
TagCount(t) ==
    Cardinality({i \in 2..Len(t) :
        t[i-1] = " " /\ \E k \in DOMAIN alternatives : t[i] = alternatives[k]})

\* The analysis of the text reports the overuse of "said".
SaidOverused(text) ==
    HasIssue(analyze_problems(text).dialogue_issues,
             "Overuse of 'said' - dialogue tags lack variety")

\* C18: a LIGHT call on a chapter of three or more dialogues whose analysis
\* reports the overuse of "said" returns a text in which at least one " said"
\* has become one of the alternative tags, and whose analysis reports the
\* overuse no longer.
SaidOveruseRepaired ==
    ( /\ pc = "returned"
      /\ intensity = "LIGHT"
      /\ max_iterations >= 1
      /\ Len(Dialogues(original_text)) >= 3
      /\ SaidOverused(original_text) )
    => /\ SaidCount(result.text) < SaidCount(original_text)
       /\ TagCount(result.text) > TagCount(original_text)
       /\ ~SaidOverused(result.text)

\* The largest number of pieces of a text that is rewritten on its own.
MaxRewriteParts ==
    2

\* A sentence of 23 words, and a paragraph of 31 sentences and 155 words.
LongSentence ==
    Flatten([k \in 1..22 |-> <<"no", " ">>]) \o <<"it", ".", " ">>

LongParagraph ==
    Flatten([k \in 1..31 |->
        <<"he", " ", "ran", " ", "so", " ", "it", " ", "went", ".", " ">>])

\* The pieces of the texts that are rewritten: a dialogue with a short
\* attribution, a sentence with two long adverbs and " said", a long
\* sentence, a long paragraph and a short paragraph with its break.
RewriteParts ==
    { <<"\"", "Hi", "\"", " ", "said", " ", "Ann", ".", " ">>,
      <<"Suddenly", " ", "he", " ", "said", " ", "it", " ", "quickly", ".", " ">>,
      LongSentence,
      LongParagraph,
      <<"Go", ".", "\n", "\n">> }

RewriteTexts ==
    UNION {{Flatten(s) : s \in [1..n -> RewriteParts]} : n \in 0..MaxRewriteParts}

\* The analyses with and without each of the four issues the rewrite engine
\* looks for, and with and without an issue it does not look for.
Analyses ==
    { ProblemAnalysis(
          IF f[1] THEN <<Issue("Found {} overly long paragraphs", 1, <<>>)>> ELSE <<>>,
          <<>>,
          <<>>,
          IF f[2] THEN <<Issue("Lack of sentence length variety - monotonous pacing",
                               0, <<>>)>>
          ELSE <<>>,
          IF f[3] THEN <<Issue("Overuse of 'said' - dialogue tags lack variety", 0, <<>>)>>
          ELSE <<>>,
          (IF f[4] THEN <<Issue("Excessive use of adverbs ({} found) - consider stronger verbs",
                                2, <<>>)>>
           ELSE <<>>)
          \o (IF f[5] THEN <<Issue("Overuse of weak verbs - consider more specific alternatives",
                                   0, <<>>)>>
              ELSE <<>>))
      : f \in [1..5 -> BOOLEAN] }

\* A call of the rewrite engine on a text, an analysis and an intensity,
\* without preservation controls.
InitRewrite ==
    /\ manuscript \in RewriteTexts
    /\ problems \in Analyses
    /\ intensity \in RewriteIntensity
    /\ pc = "call"
    /\ chapter_number = None
    /\ preservation_controls = None
    /\ max_iterations = 0
    /\ hash_seed = 0
    /\ chapters = <<>>
    /\ chapter_scores = <<>>
    /\ target_chapter = None
    /\ original_text = None
    /\ original_metrics = None
    /\ current_text = None
    /\ iterations = 0
    /\ improvements_made = <<>>
    /\ rewritten_text = None
    /\ new_metrics = None
    /\ result = None
    /\ assessments = 0
    /\ candidates = <<>>

\* rewritten = self._generate_rewrite(text, problems, intensity): one of the
\* texts the tier can give.
CallRewrite ==
    /\ pc = "call"
    /\ pc' = "rewritten"
    /\ rewritten_text' \in _generate_rewrite(manuscript, problems, intensity, None, hash_seed)
    /\ UNCHANGED <<inputs, chapters, chapter_scores, target_chapter, original_text,
                   original_metrics, problems, current_text, iterations, improvements_made,
                   new_metrics, result, assessments, candidates>>

SpecRewrite ==
    InitRewrite /\ [][CallRewrite]_vars

\* The analysis has the issue the step of the rewrite engine looks for.
AdverbsFlagged(analysis) ==
    HasIssue(analysis.prose_issues,
             "Excessive use of adverbs ({} found) - consider stronger verbs")

SaidFlagged(analysis) ==
    HasIssue(analysis.dialogue_issues, "Overuse of 'said' - dialogue tags lack variety")

VarietyFlagged(analysis) ==
    HasIssue(analysis.pacing_issues, "Lack of sentence length variety - monotonous pacing")

ParagraphsFlagged(analysis) ==
    HasIssue(analysis.structural_issues, "Found {} overly long paragraphs")

\* The analysis has no issue at all.
NothingFlagged(analysis) ==
    analysis = ProblemAnalysis(<<>>, <<>>, <<>>, <<>>, <<>>, <<>>)

\* The tiers are nested: the MODERATE result is the steps of MODERATE on the
\* LIGHT result, and the COMPREHENSIVE result is one of the results of its
\* step on the MODERATE result.
TiersNested ==
    /\ intensity = "MODERATE" =>
           rewritten_text = ModerateSteps(_light_rewrite(manuscript, problems), problems)
    /\ intensity = "COMPREHENSIVE" =>
           rewritten_text \in ImproveDialogue(_moderate_rewrite(manuscript, problems), 1)

\* The steps of LIGHT and of MODERATE are taken only for their issues.
StepsConditioned ==
    /\ (intensity = "LIGHT" /\ ~AdverbsFlagged(problems) /\ ~SaidFlagged(problems))
           => rewritten_text = manuscript
    /\ (intensity = "MODERATE" /\ ~VarietyFlagged(problems) /\ ~ParagraphsFlagged(problems))
           => rewritten_text = _light_rewrite(manuscript, problems)

\* C19 as stated: the tiers are nested, every step is taken only for its
\* issue, and the rewrite of a text with an analysis without issues is the
\* text, at every intensity.
TiersNestedAndConditioned ==
    pc = "rewritten" =>
        /\ TiersNested
        /\ StepsConditioned
        /\ NothingFlagged(problems) => rewritten_text = manuscript

\* C19: the tiers are nested and the steps of LIGHT and MODERATE are taken
\* only for their issues, so that LIGHT and MODERATE leave a text without one
\* of the four issues as it is; the step of COMPREHENSIVE is taken on every
\* short attribution with "said", with or without issues.
TiersNestedLowerConditioned ==
    pc = "rewritten" =>
        /\ TiersNested
        /\ StepsConditioned
        /\ ( /\ intensity # "COMPREHENSIVE"
             /\ ~AdverbsFlagged(problems) /\ ~SaidFlagged(problems)
             /\ ~VarietyFlagged(problems) /\ ~ParagraphsFlagged(problems) )
           => rewritten_text = manuscript
        /\ (intensity = "COMPREHENSIVE" /\ NothingFlagged(problems))
           => rewritten_text \in ImproveDialogue(manuscript, 1)

\* A MODERATE rewrite in which the light rewrite has changed the text and
\* the steps of MODERATE have changed it again.
ModerateBeyondLight ==
    /\ pc = "rewritten"
    /\ intensity = "MODERATE"
    /\ _light_rewrite(manuscript, problems) # manuscript
    /\ rewritten_text # _light_rewrite(manuscript, problems)
    /\ rewritten_text # ModerateSteps(manuscript, problems)

\* C20: the changes_made of the report come from the descriptions gathered
\* in the accepted iterations: each of them is one of improvements_made, and
\* there is none when no candidate was accepted.
ChangesFromAcceptedRewrites ==
    pc = "returned" =>
        \E changes_made \in {result.report.changes_made} :
            /\ \A k \in DOMAIN changes_made :
                   \E j \in DOMAIN improvements_made :
                       changes_made[k].text = improvements_made[j]
            /\ (\A k \in DOMAIN candidates : ~candidates[k].accepted)
                   => changes_made = <<>>

\* C21: a LIGHT or MODERATE call is a function of its arguments: each of its
\* steps, the rewrite of the current text (with the names put back) and the
\* report on the text that is kept, has one outcome, and the same one in
\* every process that runs the call.
RewriteIsPure ==
    intensity \in {"LIGHT", "MODERATE"} =>
        /\ (pc = "loop" /\ iterations < max_iterations) =>
               \A seed \in HashSeeds :
                   \E rewritten \in {_generate_rewrite(current_text, problems, intensity,
                                                       preservation_controls, seed)} :
                       /\ Cardinality(rewritten) = 1
                       /\ rewritten = _generate_rewrite(current_text, problems, intensity,
                                                        preservation_controls, hash_seed)
        /\ (pc = "report" /\ ~ReadabilityRaises(current_text)) =>
               \A seed \in HashSeeds :
                   _identify_preserved_elements(original_text, current_text,
                                                preservation_controls, seed)
                       = _identify_preserved_elements(original_text, current_text,
                                                      preservation_controls, hash_seed)

\* The text that is current when the k-th candidate is made: the last
\* candidate accepted before it, or the original text.
CurrentBefore(k) ==
    LET Kept(accepted) ==
            IF accepted = {} THEN original_text ELSE candidates[Max(accepted)].text
    IN  Kept({j \in 1..(k - 1) : candidates[j].accepted})

LightKeepsParagraphs ==
    (pc = "rewritten" /\ intensity = "LIGHT") =>
        Len(Paragraphs(rewritten_text)) = Len(Paragraphs(manuscript))

====
